---------------------------- MODULE Spec2Model ----------------------------
(***************************************************************************)
(* A model of python-sql-engine: Lexer -> Parser -> Executor -> Storage.   *)
(* SQL text is a sequence of one-character strings; Python str values      *)
(* built by the code (identifiers, literals, messages) are TLA+ strings    *)
(* built by concatenation, as the code builds them.                        *)
(***************************************************************************)
EXTENDS Integers, Sequences, FiniteSets, TLC

(***************************************************************************)
(* Python values.  None, int, float and str are tagged records.  A float   *)
(* literal d1..dk.f1..fe is the decimal n / 10^e, kept in lowest terms.  A *)
(* str value is its sequence of characters; a name (of a table, a column,  *)
(* a token type) and a message are TLA+ strings.                           *)
(***************************************************************************)
None == [kind |-> "none"]
PyInt(n) == [kind |-> "int", n |-> n]
PyStr(cs) == [kind |-> "str", cs |-> cs]

RECURSIVE PyFloat(_, _)
PyFloat(n, e) ==
    IF e > 0 /\ n % 10 = 0 THEN PyFloat(n \div 10, e - 1)
    ELSE [kind |-> "float", n |-> n, e |-> e]

RECURSIVE Pow10(_)
Pow10(e) == IF e = 0 THEN 1 ELSE 10 * Pow10(e - 1)

IsNumber(v) == v.kind \in {"int", "float"}
Scale(v) == IF v.kind = "float" THEN v.e ELSE 0

\* Python truthiness of a value (None, 0, 0.0 and '' are false).
Truthy(v) ==
    CASE v.kind = "none" -> FALSE
      [] v.kind = "str" -> Len(v.cs) > 0
      [] OTHER -> v.n /= 0

\* type(value).__name__
TypeName(v) ==
    CASE v.kind = "none" -> "NoneType"
      [] v.kind = "int" -> "int"
      [] v.kind = "float" -> "float"
      [] OTHER -> "str"

\* Python == on values: numeric between int and float, False across kinds.
PyEq(a, b) ==
    IF IsNumber(a) /\ IsNumber(b)
    THEN a.n * Pow10(Scale(b)) = b.n * Pow10(Scale(a))
    ELSE a = b

\* Python < on two numbers.
NumLess(a, b) == a.n * Pow10(Scale(b)) < b.n * Pow10(Scale(a))

(***************************************************************************)
(* Characters.                                                             *)
(***************************************************************************)
Digits == <<"0", "1", "2", "3", "4", "5", "6", "7", "8", "9">>
LowerCase == <<"a", "b", "c", "d", "e", "f", "g", "h", "i", "j", "k", "l", "m",
               "n", "o", "p", "q", "r", "s", "t", "u", "v", "w", "x", "y", "z">>
UpperCase == <<"A", "B", "C", "D", "E", "F", "G", "H", "I", "J", "K", "L", "M",
               "N", "O", "P", "Q", "R", "S", "T", "U", "V", "W", "X", "Y", "Z">>

Range(s) == {s[i] : i \in DOMAIN s}
IndexOf(s, c) == CHOOSE i \in DOMAIN s : s[i] = c

isdigit(c) == c \in Range(Digits)
isalpha(c) == c \in Range(LowerCase) \cup Range(UpperCase)
isalnum(c) == isalpha(c) \/ isdigit(c)
isspace(c) == c \in {" ", "\t", "\n"}
upper(c) == IF c \in Range(LowerCase) THEN UpperCase[IndexOf(LowerCase, c)] ELSE c
DigitVal(c) == IndexOf(Digits, c) - 1

\* str(n) for a natural number n.
RECURSIVE ToStr(_)
ToStr(n) == IF n < 10 THEN Digits[n + 1] ELSE ToStr(n \div 10) \o Digits[(n % 10) + 1]

\* The str built from a run of characters.
RECURSIVE Join(_)
Join(cs) == IF cs = <<>> THEN "" ELSE Head(cs) \o Join(Tail(cs))

\* Only({F(x) : x \in {e}}) is LET x == e IN F(x) with e evaluated once,
\* whatever the evaluation strategy.
Only(S) == CHOOSE x \in S : TRUE

\* A raised exception, and the two outcomes of a call.
Exc(type, msg) == [type |-> type, msg |-> msg]
Raise(type, msg) == [ok |-> FALSE, exc |-> Exc(type, msg)]
Return(v) == [ok |-> TRUE, val |-> v]

(***************************************************************************)
(* Lexer.  Positions are Python's (0-based): character p of the text is    *)
(* sql[p + 1].                                                             *)
(***************************************************************************)
KEYWORDS == {"SELECT", "FROM", "WHERE", "INSERT", "INTO", "VALUES",
             "CREATE", "TABLE", "INT", "VARCHAR", "AND", "OR"}

\* A token's value is a Python value for NUMBER and STRING, None for EOF and
\* the token's text otherwise.
Token(type, value, position) == [type |-> type, value |-> value, position |-> position]

\* self.current_char at position p: None (here "") past the end.
CharAt(sql, p) == IF p >= Len(sql) THEN "" ELSE sql[p + 1]
AtEnd(sql, p) == p >= Len(sql)

\* Lexer.peek
peek(sql, p) == CharAt(sql, p + 1)

\* The loop conditions of skip_whitespace, read_number, read_identifier and
\* read_string.
InRun(run, c) ==
    CASE run = "space" -> isspace(c)
      [] run = "number" -> isdigit(c) \/ c = "."
      [] run = "identifier" -> isalnum(c) \/ c = "_"
      [] run = "string" -> c /= "'"

\* The position where a `while self.current_char and <cond>: self.advance()`
\* loop started at p stops.
RECURSIVE RunEnd(_, _, _)
RunEnd(sql, p, run) ==
    IF ~AtEnd(sql, p) /\ InRun(run, sql[p + 1]) THEN RunEnd(sql, p + 1, run) ELSE p

\* Lexer.skip_whitespace
skip_whitespace(sql, p) == RunEnd(sql, p, "space")

Chars(sql, from, to) == SubSeq(sql, from + 1, to)
CountDots(cs) == Cardinality({i \in DOMAIN cs : cs[i] = "."})

\* int() of a run of digits.
RECURSIVE IntOf(_)
IntOf(cs) == IF cs = <<>> THEN 0 ELSE 10 * IntOf(SubSeq(cs, 1, Len(cs) - 1)) + DigitVal(cs[Len(cs)])

\* float() of a run of digits and dots that starts with a digit: exactly one
\* dot is a float literal, more is a ValueError.
FloatOf(cs) ==
    LET dot == IndexOf(cs, ".")
        digs == SubSeq(cs, 1, dot - 1) \o SubSeq(cs, dot + 1, Len(cs))
    IN  PyFloat(IntOf(digs), Len(cs) - dot)

\* Lexer.read_number over a float() that stops reading at a second dot.
read_number_lenient(sql, p) ==
    Only({
        LET num_str == Chars(sql, p, q)
            dots == {i \in DOMAIN num_str : num_str[i] = "."}
            second == CHOOSE i \in dots : Cardinality({j \in dots : j < i}) = 1
        IN  IF CountDots(num_str) = 0
            THEN Return([tok |-> Token("NUMBER", PyInt(IntOf(num_str)), p), pos |-> q])
            ELSE IF CountDots(num_str) = 1
            THEN Return([tok |-> Token("NUMBER", FloatOf(num_str), p), pos |-> q])
            ELSE Return([tok |-> Token("NUMBER", FloatOf(SubSeq(num_str, 1, second - 1)), p),
                         pos |-> q])
        : q \in {RunEnd(sql, p, "number")}})

\* Lexer.read_number: the token and the position after it, or the failure
\* of float().
read_number(sql, p) ==
    Only({
        LET num_str == Chars(sql, p, q)
        IN  IF CountDots(num_str) = 0
            THEN Return([tok |-> Token("NUMBER", PyInt(IntOf(num_str)), p), pos |-> q])
            ELSE IF CountDots(num_str) = 1
            THEN Return([tok |-> Token("NUMBER", FloatOf(num_str), p), pos |-> q])
            ELSE Raise("ValueError",
                       "could not convert string to float: '" \o Join(num_str) \o "'")
        : q \in {RunEnd(sql, p, "number")}})

\* Lexer.read_string
read_string(sql, p) ==
    Only({
        IF CharAt(sql, q) = "'"
        THEN Return([tok |-> Token("STRING", PyStr(Chars(sql, p + 1, q)), p),
                     pos |-> q + 1])
        ELSE Raise("ValueError", "Unterminated string at position " \o ToStr(p))
        : q \in {RunEnd(sql, p + 1, "string")}})

\* Lexer.read_identifier
read_identifier(sql, p) ==
    Only({
        Only({
            IF identifier_upper \in KEYWORDS
            THEN Return([tok |-> Token(identifier_upper, identifier_upper, p), pos |-> q])
            ELSE Return([tok |-> Token("IDENTIFIER", Join(Chars(sql, p, q)), p), pos |-> q])
            : identifier_upper \in {Join([i \in 1..(q - p) |-> upper(sql[p + i])])}})
        : q \in {RunEnd(sql, p, "identifier")}})

\* char_map of Lexer.tokenize
char_map(c) ==
    CASE c = "=" -> "EQUALS"
      [] c = ">" -> "GREATER"
      [] c = "<" -> "LESS"
      [] c = "(" -> "LPAREN"
      [] c = ")" -> "RPAREN"
      [] c = "," -> "COMMA"
      [] c = ";" -> "SEMICOLON"
      [] c = "*" -> "STAR"
      [] OTHER -> "?"

\* One iteration of the loop of Lexer.tokenize at position p with a current
\* character: the tokens it appends (none for whitespace) and the next
\* position, or the failure.
LexStep(sql, p) ==
    LET c == CharAt(sql, p)
    IN  IF isspace(c) THEN Return([toks |-> <<>>, pos |-> skip_whitespace(sql, p)])
        ELSE IF isdigit(c) \/ c = "'" \/ isalpha(c) \/ c = "_"
        THEN Only({IF r.ok THEN Return([toks |-> <<r.val.tok>>, pos |-> r.val.pos]) ELSE r
                   : r \in {IF isdigit(c) THEN read_number(sql, p)
                            ELSE IF c = "'" THEN read_string(sql, p)
                            ELSE read_identifier(sql, p)}})
        ELSE IF c = ">" /\ peek(sql, p) = "="
        THEN Return([toks |-> <<Token("GREATER_EQ", ">=", p)>>, pos |-> p + 2])
        ELSE IF c = "<" /\ peek(sql, p) = "="
        THEN Return([toks |-> <<Token("LESS_EQ", "<=", p)>>, pos |-> p + 2])
        ELSE IF c = "!" /\ peek(sql, p) = "="
        THEN Return([toks |-> <<Token("NOT_EQ", "!=", p)>>, pos |-> p + 2])
        ELSE IF char_map(c) /= "?"
        THEN Return([toks |-> <<Token(char_map(c), c, p)>>, pos |-> p + 1])
        ELSE Raise("ValueError",
                   "Unexpected character '" \o c \o "' at position " \o ToStr(p))

\* The end of Lexer.tokenize returning the tokens of the loop as they are.
end_of_input_as_is(tokens, p) == tokens

\* The end of Lexer.tokenize, after the loop: the EOF token is added.
end_of_input(tokens, p) == Append(tokens, Token("EOF", None, p))

RECURSIVE TokenizeFrom(_, _, _)
TokenizeFrom(sql, p, tokens) ==
    IF AtEnd(sql, p) THEN Return(end_of_input(tokens, p))
    ELSE Only({IF r.ok
               THEN Only({TokenizeFrom(sql, r.val.pos, more) : more \in {tokens \o r.val.toks}})
               ELSE r
               : r \in {LexStep(sql, p)}})

\* Lexer(sql).tokenize()
tokenize(sql) == TokenizeFrom(sql, 0, <<>>)

(***************************************************************************)
(* Parser.  tokens[i] is self.current_token (i = self.position + 1); a     *)
(* parse method returns its value v and the position after it.             *)
(***************************************************************************)
Column(name, data_type, size) == [name |-> name, data_type |-> data_type, size |-> size]
SelectStatement(columns, table, where) ==
    [node |-> "SelectStatement", columns |-> columns, table |-> table, where |-> where]
InsertStatement(table, columns, values) ==
    [node |-> "InsertStatement", table |-> table, columns |-> columns, values |-> values]
CreateTableStatement(table, columns) ==
    [node |-> "CreateTableStatement", table |-> table, columns |-> columns]
Condition(column, operator, value) ==
    [node |-> "Condition", column |-> column, operator |-> operator, value |-> value]

\* A CompoundCondition whose right operand is its left one again.
CompoundConditionOfLeft(left, operator, right) ==
    [node |-> "CompoundCondition", left |-> left, operator |-> operator, right |-> left]

CompoundCondition(left, operator, right) ==
    [node |-> "CompoundCondition", left |-> left, operator |-> operator, right |-> right]

Parsed(v, i) == Return([v |-> v, pos |-> i])

\* self.current_token is None once the position passes the last token, and
\* reading its type fails.
HasToken(tokens, i) == i <= Len(tokens)
NoToken == Raise("AttributeError", "'NoneType' object has no attribute 'type'")

\* Parser.expect
expect(tokens, i, token_type) ==
    IF ~HasToken(tokens, i) THEN NoToken
    ELSE IF tokens[i].type /= token_type
    THEN Raise("ValueError",
               "Expected TokenType." \o token_type \o ", got TokenType." \o tokens[i].type
               \o " at position " \o ToStr(tokens[i].position))
    ELSE Parsed(tokens[i], i + 1)

\* Parser.parse_value
parse_value(tokens, i) ==
    IF ~HasToken(tokens, i) THEN NoToken
    ELSE IF tokens[i].type \in {"NUMBER", "STRING"} THEN Parsed(tokens[i].value, i + 1)
    ELSE Raise("ValueError", "Expected value, got TokenType." \o tokens[i].type)

\* Parser.parse_column_definition
parse_column_definition(tokens, i) ==
    Only({IF ~n.ok THEN n
          ELSE LET column_name == n.val.v.value
                   j == n.val.pos
               IN  IF ~HasToken(tokens, j) THEN NoToken
                   ELSE IF tokens[j].type = "INT"
                   THEN Parsed(Column(column_name, "INT", None), j + 1)
                   ELSE IF tokens[j].type = "VARCHAR"
                   THEN IF ~HasToken(tokens, j + 1) THEN NoToken
                        ELSE IF tokens[j + 1].type = "LPAREN"
                        THEN Only({IF ~size.ok THEN size ELSE
                             Only({IF ~close.ok THEN close
                                   ELSE Parsed(Column(column_name, "VARCHAR",
                                                      size.val.v.value),
                                               close.val.pos)
                                   : close \in {expect(tokens, size.val.pos, "RPAREN")}})
                                   : size \in {expect(tokens, j + 2, "NUMBER")}})
                        ELSE Parsed(Column(column_name, "VARCHAR", None), j + 1)
                   ELSE Raise("ValueError",
                              "Expected data type, got TokenType." \o tokens[j].type)
          : n \in {expect(tokens, i, "IDENTIFIER")}})

\* One element of a comma-separated list: a column name, a literal or a
\* column definition.
parse_item(tokens, i, item) ==
    CASE item = "identifier" ->
           Only({IF r.ok THEN Parsed(r.val.v.value, r.val.pos) ELSE r
                 : r \in {expect(tokens, i, "IDENTIFIER")}})
      [] item = "value" -> parse_value(tokens, i)
      [] item = "column_definition" -> parse_column_definition(tokens, i)

\* `xs.append(item); while current is COMMA: advance(); xs.append(item)`,
\* the list loop of parse_select, parse_insert and parse_create_table.
RECURSIVE parse_list(_, _, _, _)
parse_list(tokens, i, item, xs) ==
    Only({IF ~r.ok THEN r
          ELSE IF ~HasToken(tokens, r.val.pos) THEN NoToken
          ELSE Only({IF tokens[r.val.pos].type = "COMMA"
                     THEN parse_list(tokens, r.val.pos + 1, item, more)
                     ELSE Parsed(more, r.val.pos)
                     : more \in {Append(xs, r.val.v)}})
          : r \in {parse_item(tokens, i, item)}})

\* operator_map of Parser.parse_condition
comparison_op(token_type) ==
    CASE token_type = "EQUALS" -> "="
      [] token_type = "GREATER" -> ">"
      [] token_type = "LESS" -> "<"
      [] token_type = "GREATER_EQ" -> ">="
      [] token_type = "LESS_EQ" -> "<="
      [] token_type = "NOT_EQ" -> "!="
      [] OTHER -> "?"

\* Parser.parse_condition
parse_condition(tokens, i) ==
    Only({IF ~c.ok THEN c
          ELSE LET j == c.val.pos
               IN  IF ~HasToken(tokens, j) THEN NoToken
                   ELSE IF comparison_op(tokens[j].type) = "?"
                   THEN Raise("ValueError",
                              "Expected comparison operator, got TokenType."
                              \o tokens[j].type)
                   ELSE Only({IF ~v.ok THEN v
                              ELSE Parsed(Condition(c.val.v.value,
                                                    comparison_op(tokens[j].type),
                                                    v.val.v),
                                          v.val.pos)
                              : v \in {parse_value(tokens, j + 1)}})
          : c \in {expect(tokens, i, "IDENTIFIER")}})

\* The loop of Parser.parse_where grouping from the right: what follows an
\* AND or OR becomes its right operand as a whole.
RECURSIVE where_loop_folding_right(_, _, _)
where_loop_folding_right(tokens, i, left) ==
    IF ~HasToken(tokens, i) THEN NoToken
    ELSE IF tokens[i].type \in {"AND", "OR"}
    THEN Only({IF ~right.ok THEN right
               ELSE Only({IF ~rest.ok THEN rest
                          ELSE Parsed(CompoundCondition(left, tokens[i].value, rest.val.v),
                                      rest.val.pos)
                          : rest \in {where_loop_folding_right(tokens, right.val.pos,
                                                               right.val.v)}})
               : right \in {parse_condition(tokens, i + 1)}})
    ELSE Parsed(left, i)

\* The loop of Parser.parse_where: fold the conditions that follow `left`.
RECURSIVE where_loop(_, _, _)
where_loop(tokens, i, left) ==
    IF ~HasToken(tokens, i) THEN NoToken
    ELSE IF tokens[i].type \in {"AND", "OR"}
    THEN Only({IF ~right.ok THEN right
               ELSE Only({where_loop(tokens, right.val.pos, both)
                          : both \in {CompoundCondition(left, tokens[i].value,
                                                        right.val.v)}})
               : right \in {parse_condition(tokens, i + 1)}})
    ELSE Parsed(left, i)

\* Parser.parse_where
parse_where(tokens, i) ==
    Only({IF ~left.ok THEN left ELSE where_loop(tokens, left.val.pos, left.val.v)
          : left \in {parse_condition(tokens, i)}})

\* The tail of Parser.parse_select, from the optional WHERE on.
select_where(tokens, i, columns, table_name) ==
    IF ~HasToken(tokens, i) THEN NoToken
    ELSE IF tokens[i].type = "WHERE"
    THEN Only({IF ~where.ok THEN where
               ELSE Parsed(SelectStatement(columns, table_name, where.val.v),
                           where.val.pos)
               : where \in {parse_where(tokens, i + 1)}})
    ELSE Parsed(SelectStatement(columns, table_name, None), i)

\* Parser.parse_select
parse_select(tokens, i) ==
    Only({IF ~s.ok THEN s
          ELSE IF ~HasToken(tokens, s.val.pos) THEN NoToken ELSE
    Only({IF ~columns.ok THEN columns ELSE
    Only({IF ~f.ok THEN f ELSE
    Only({IF ~table.ok THEN table
          ELSE select_where(tokens, table.val.pos, columns.val.v, table.val.v.value)
          : table \in {expect(tokens, f.val.pos, "IDENTIFIER")}})
          : f \in {expect(tokens, columns.val.pos, "FROM")}})
          : columns \in {IF tokens[s.val.pos].type = "STAR"
                         THEN Parsed(<<"*">>, s.val.pos + 1)
                         ELSE parse_list(tokens, s.val.pos, "identifier", <<>>)}})
          : s \in {expect(tokens, i, "SELECT")}})

\* `expect(LPAREN); <list>; expect(RPAREN)`
parse_parenthesized(tokens, i, item) ==
    Only({IF ~open.ok THEN open ELSE
    Only({IF ~xs.ok THEN xs ELSE
    Only({IF ~close.ok THEN close ELSE Parsed(xs.val.v, close.val.pos)
          : close \in {expect(tokens, xs.val.pos, "RPAREN")}})
          : xs \in {parse_list(tokens, open.val.pos, item, <<>>)}})
          : open \in {expect(tokens, i, "LPAREN")}})

\* Parser.parse_insert
parse_insert(tokens, i) ==
    Only({IF ~ins.ok THEN ins ELSE
    Only({IF ~into.ok THEN into ELSE
    Only({IF ~table.ok THEN table ELSE
    Only({IF ~columns.ok THEN columns ELSE
    Only({IF ~kw.ok THEN kw ELSE
    Only({IF ~values.ok THEN values
          ELSE Parsed(InsertStatement(table.val.v.value, columns.val.v, values.val.v),
                      values.val.pos)
          : values \in {parse_parenthesized(tokens, kw.val.pos, "value")}})
          : kw \in {expect(tokens, columns.val.pos, "VALUES")}})
          : columns \in {parse_parenthesized(tokens, table.val.pos, "identifier")}})
          : table \in {expect(tokens, into.val.pos, "IDENTIFIER")}})
          : into \in {expect(tokens, ins.val.pos, "INTO")}})
          : ins \in {expect(tokens, i, "INSERT")}})

\* Parser.parse_create_table
parse_create_table(tokens, i) ==
    Only({IF ~cr.ok THEN cr ELSE
    Only({IF ~tb.ok THEN tb ELSE
    Only({IF ~table.ok THEN table ELSE
    Only({IF ~columns.ok THEN columns
          ELSE Parsed(CreateTableStatement(table.val.v.value, columns.val.v),
                      columns.val.pos)
          : columns \in {parse_parenthesized(tokens, table.val.pos, "column_definition")}})
          : table \in {expect(tokens, tb.val.pos, "IDENTIFIER")}})
          : tb \in {expect(tokens, cr.val.pos, "TABLE")}})
          : cr \in {expect(tokens, i, "CREATE")}})

\* Parser(tokens).parse() refusing a statement that EOF does not follow.
parse_to_end(tokens) ==
    IF ~HasToken(tokens, 1) THEN NoToken
    ELSE Only({IF ~r.ok THEN r
               ELSE IF tokens[r.val.pos].type /= "EOF"
               THEN Raise("ValueError",
                          "Expected TokenType.EOF, got TokenType." \o tokens[r.val.pos].type
                          \o " at position " \o ToStr(tokens[r.val.pos].position))
               ELSE Return(r.val.v)
               : r \in {CASE tokens[1].type = "SELECT" -> parse_select(tokens, 1)
                          [] tokens[1].type = "INSERT" -> parse_insert(tokens, 1)
                          [] tokens[1].type = "CREATE" -> parse_create_table(tokens, 1)
                          [] OTHER -> Raise("ValueError",
                                            "Unexpected statement starting with TokenType."
                                            \o tokens[1].type)}})

\* Parser(tokens).parse(): the statement, whatever follows it.
parse(tokens) ==
    IF ~HasToken(tokens, 1) THEN NoToken
    ELSE Only({IF r.ok THEN Return(r.val.v) ELSE r
               : r \in {CASE tokens[1].type = "SELECT" -> parse_select(tokens, 1)
                          [] tokens[1].type = "INSERT" -> parse_insert(tokens, 1)
                          [] tokens[1].type = "CREATE" -> parse_create_table(tokens, 1)
                          [] OTHER -> Raise("ValueError",
                                            "Unexpected statement starting with TokenType."
                                            \o tokens[1].type)}})

(***************************************************************************)
(* Python dict: the keys in insertion order and the value of each key.     *)
(***************************************************************************)
EmptyDict == [keys |-> <<>>, val |-> [k \in {} |-> None]]
Has(d, k) == k \in Range(d.keys)
Get(d, k) == IF Has(d, k) THEN d.val[k] ELSE None
Put(d, k, v) ==
    [keys |-> IF Has(d, k) THEN d.keys ELSE Append(d.keys, k),
     val |-> [x \in Range(d.keys) \cup {k} |-> IF x = k THEN v ELSE d.val[x]]]

Min(a, b) == IF a <= b THEN a ELSE b

\* dict(zip(ks, vs)): pairs up to the shorter list, a later pair of the same
\* key replacing the value of the earlier one.
RECURSIVE DictZipFrom(_, _, _, _)
DictZipFrom(ks, vs, i, d) ==
    IF i > Min(Len(ks), Len(vs)) THEN d
    ELSE Only({DictZipFrom(ks, vs, i + 1, more) : more \in {Put(d, ks[i], vs[i])}})

\* dict(zip(ks, vs)) giving None to the keys that have no value.
DictZipPadded(ks, vs) ==
    DictZipFrom(ks, vs \o [i \in 1..(Len(ks) - Len(vs)) |-> None], 1, EmptyDict)

DictZip(ks, vs) == DictZipFrom(ks, vs, 1, EmptyDict)

\* {k: f(k) for k in ks}
RECURSIVE DictOfFrom(_, _, _, _)
DictOfFrom(ks, src, i, d) ==
    IF i > Len(ks) THEN d
    ELSE Only({DictOfFrom(ks, src, i + 1, more) : more \in {Put(d, ks[i], Get(src, ks[i]))}})

\* str() of a number: 50, 1.5, 2.0
PyRepr(v) ==
    IF v.kind = "int" THEN ToStr(v.n)
    ELSE LET whole == v.n \div Pow10(v.e)
             frac == v.n % Pow10(v.e)
             pad == [i \in 1..(v.e - Len(ToStr(frac))) |-> "0"]
         IN  ToStr(whole) \o "." \o (IF v.e = 0 THEN "0" ELSE Join(pad) \o ToStr(frac))

\* Code points, as far as their order goes.
AsciiOrder ==
    <<"\t", "\n", " ", "!", "#", "'", "(", ")", "*", ",", ".">> \o Digits
    \o <<";", "<", "=", ">">> \o UpperCase \o <<"_">> \o LowerCase
Ord(c) == IndexOf(AsciiOrder, c)

\* Python < on two str values.
RECURSIVE StrLess(_, _)
StrLess(a, b) ==
    IF b = <<>> THEN FALSE
    ELSE IF a = <<>> THEN TRUE
    ELSE IF Head(a) = Head(b) THEN StrLess(Tail(a), Tail(b))
    ELSE Ord(Head(a)) < Ord(Head(b))

(***************************************************************************)
(* Table.                                                                  *)
(***************************************************************************)
Table(name, columns, rows) == [name |-> name, columns |-> columns, rows |-> rows]

\* Table.get_column_names
get_column_names(table) == [i \in DOMAIN table.columns |-> table.columns[i].name]

\* The check of one column without the test of INT columns.
column_error_text_only(col, row) ==
    IF ~Has(row, col.name) THEN ""
    ELSE LET value == Get(row, col.name)
         IN  IF col.data_type = "VARCHAR"
             THEN IF value.kind /= "str"
                  THEN "Column '" \o col.name \o "' expects VARCHAR, got " \o TypeName(value)
                  ELSE IF Truthy(col.size) /\ NumLess(col.size, PyInt(Len(value.cs)))
                  THEN "Value for '" \o col.name \o "' exceeds maximum length of "
                       \o PyRepr(col.size)
                  ELSE ""
             ELSE ""

\* The check of one column in the second loop of Table.validate_row: the
\* message of the ValueError it raises for this row, "" when it raises none.
column_error(col, row) ==
    IF ~Has(row, col.name) THEN ""
    ELSE LET value == Get(row, col.name)
         IN  IF col.data_type = "INT"
             THEN IF value.kind /= "int"
                  THEN "Column '" \o col.name \o "' expects INT, got " \o TypeName(value)
                  ELSE ""
             ELSE IF col.data_type = "VARCHAR"
             THEN IF value.kind /= "str"
                  THEN "Column '" \o col.name \o "' expects VARCHAR, got " \o TypeName(value)
                  ELSE IF Truthy(col.size) /\ NumLess(col.size, PyInt(Len(value.cs)))
                  THEN "Value for '" \o col.name \o "' exceeds maximum length of "
                       \o PyRepr(col.size)
                  ELSE ""
             ELSE ""

\* Table.validate_row
validate_row(table, row) ==
    LET column_names == Range(get_column_names(table))
        unknown == {i \in DOMAIN row.keys : row.keys[i] \notin column_names}
        failing == {i \in DOMAIN table.columns : column_error(table.columns[i], row) /= ""}
        first(S) == CHOOSE i \in S : \A j \in S : i <= j
    IN  IF unknown /= {}
        THEN Raise("ValueError",
                   "Column '" \o row.keys[first(unknown)] \o "' does not exist in table '"
                   \o table.name \o "'")
        ELSE IF failing /= {}
        THEN Raise("ValueError", column_error(table.columns[first(failing)], row))
        ELSE Return(TRUE)

\* Table.insert keeping the new row only.
insert_replacing(table, row) ==
    Only({IF ~valid.ok THEN valid
          ELSE Return(Table(table.name, table.columns, <<row>>))
          : valid \in {validate_row(table, row)}})

\* Table.insert with the row put first instead of last.
insert_prepending(table, row) ==
    Only({IF ~valid.ok THEN valid
          ELSE Return(Table(table.name, table.columns, <<row>> \o table.rows))
          : valid \in {validate_row(table, row)}})

\* Table.insert: the table afterwards, or the failure of validate_row.
insert(table, row) ==
    Only({IF ~valid.ok THEN valid
          ELSE Return(Table(table.name, table.columns, Append(table.rows, row)))
          : valid \in {validate_row(table, row)}})

\* Table.to_dict leaving the sizes out.
to_dict_without_sizes(table) ==
    [name |-> table.name,
     columns |-> [i \in DOMAIN table.columns |->
                    [name |-> table.columns[i].name,
                     data_type |-> table.columns[i].data_type,
                     size |-> None]],
     rows |-> table.rows]

\* Table.to_dict
to_dict(table) ==
    [name |-> table.name,
     columns |-> [i \in DOMAIN table.columns |->
                    [name |-> table.columns[i].name,
                     data_type |-> table.columns[i].data_type,
                     size |-> table.columns[i].size]],
     rows |-> table.rows]

\* Table.from_dict
from_dict(data) ==
    Table(data.name,
          [i \in DOMAIN data.columns |->
             Column(data.columns[i].name, data.columns[i].data_type, data.columns[i].size)],
          data.rows)

(***************************************************************************)
(* JSON files.  A scalar is written as null, an integer, a real or a       *)
(* string, and read back by the kind of text it was written as.            *)
(***************************************************************************)
json_scalar(v) ==
    CASE v.kind = "none" -> [json |-> "null"]
      [] v.kind = "int" -> [json |-> "integer", n |-> v.n]
      [] v.kind = "float" -> [json |-> "real", n |-> v.n, e |-> v.e]
      [] v.kind = "str" -> [json |-> "string", cs |-> v.cs]

py_scalar(j) ==
    CASE j.json = "null" -> None
      [] j.json = "integer" -> PyInt(j.n)
      [] j.json = "real" -> PyFloat(j.n, j.e)
      [] j.json = "string" -> PyStr(j.cs)

\* A row as a JSON object, and back.
json_row(row) == [keys |-> row.keys, val |-> [k \in DOMAIN row.val |-> json_scalar(row.val[k])]]
py_row(obj) == [keys |-> obj.keys, val |-> [k \in DOMAIN obj.val |-> py_scalar(obj.val[k])]]

\* json.dump of the dict Table.to_dict returns
json_dump(data) ==
    [name |-> data.name,
     columns |-> [i \in DOMAIN data.columns |->
                    [name |-> data.columns[i].name,
                     data_type |-> data.columns[i].data_type,
                     size |-> json_scalar(data.columns[i].size)]],
     rows |-> [i \in DOMAIN data.rows |-> json_row(data.rows[i])]]

\* json.load of a table's file
json_load(file) ==
    [name |-> file.name,
     columns |-> [i \in DOMAIN file.columns |->
                    [name |-> file.columns[i].name,
                     data_type |-> file.columns[i].data_type,
                     size |-> py_scalar(file.columns[i].size)]],
     rows |-> [i \in DOMAIN file.rows |-> py_row(file.rows[i])]]

(***************************************************************************)
(* StorageEngine.  tables is self.tables; disk maps a table name n to the  *)
(* content of the file n.json of the database directory.  An operation     *)
(* returns the storage it leaves, also when it fails.                      *)
(***************************************************************************)
Done(v, tables, disk) == [ok |-> TRUE, val |-> v, tables |-> tables, disk |-> disk]
Failed(exc, tables, disk) == [ok |-> FALSE, exc |-> exc, tables |-> tables, disk |-> disk]

\* StorageEngine.save_table adding the rows to the file's rows instead of
\* overwriting the file.
save_table_appending(disk, table) ==
    [n \in DOMAIN disk \cup {table.name} |->
       IF n /= table.name THEN disk[n]
       ELSE IF n \in DOMAIN disk
       THEN [json_dump(to_dict(table)) EXCEPT !.rows = disk[n].rows \o @]
       ELSE json_dump(to_dict(table))]

\* StorageEngine.save_table
save_table(disk, table) ==
    [n \in DOMAIN disk \cup {table.name} |->
       IF n = table.name THEN json_dump(to_dict(table)) ELSE disk[n]]

\* StorageEngine.get_table making up an empty table for a name it does not
\* have.
get_table_or_new(tables, name) ==
    IF Has(tables, name) THEN Get(tables, name) ELSE Table(name, <<>>, <<>>)

\* StorageEngine.get_table
get_table(tables, name) == Get(tables, name)

\* StorageEngine.table_exists
table_exists(tables, name) == Has(tables, name)

\* StorageEngine.list_tables
list_tables(tables) == tables.keys

\* StorageEngine.create_table registering the new table before it finds the
\* name taken.
create_table_registering_first(tables, disk, name, columns) ==
    LET table == Table(name, columns, <<>>)
    IN  IF Has(tables, name)
        THEN Failed(Exc("ValueError", "Table '" \o name \o "' already exists"),
                    Put(tables, name, table), disk)
        ELSE Done(None, Put(tables, name, table), save_table(disk, table))

\* StorageEngine.create_table without the check for an existing name.
create_table_replacing(tables, disk, name, columns) ==
    LET table == Table(name, columns, <<>>)
    IN  Done(None, Put(tables, name, table), save_table(disk, table))

\* StorageEngine.create_table
create_table(tables, disk, name, columns) ==
    IF Has(tables, name)
    THEN Failed(Exc("ValueError", "Table '" \o name \o "' already exists"), tables, disk)
    ELSE LET table == Table(name, columns, <<>>)
         IN  Done(None, Put(tables, name, table), save_table(disk, table))

\* StorageEngine.insert_row over a Table.insert that appends before it
\* validates: the row stays in memory when validation fails.
insert_row_appending_first(tables, disk, table_name, row) ==
    Only({IF table = None
          THEN Failed(Exc("ValueError", "Table '" \o table_name \o "' does not exist"),
                      tables, disk)
          ELSE Only({IF ~inserted.ok
                     THEN Failed(inserted.exc,
                                 Put(tables, table_name,
                                     Table(table.name, table.columns,
                                           Append(table.rows, row))),
                                 disk)
                     ELSE Done(None, Put(tables, table_name, inserted.val),
                               save_table(disk, inserted.val))
                     : inserted \in {insert(table, row)}})
          : table \in {get_table(tables, table_name)}})

\* StorageEngine.insert_row
insert_row(tables, disk, table_name, row) ==
    Only({IF table = None
          THEN Failed(Exc("ValueError", "Table '" \o table_name \o "' does not exist"),
                      tables, disk)
          ELSE Only({IF ~inserted.ok THEN Failed(inserted.exc, tables, disk)
                     ELSE Done(None, Put(tables, table_name, inserted.val),
                               save_table(disk, inserted.val))
                     : inserted \in {insert(table, row)}})
          : table \in {get_table(tables, table_name)}})

\* StorageEngine.load_database reading the files in the order `names`.
RECURSIVE load_database(_, _, _)
load_database(disk, names, tables) ==
    IF names = <<>> THEN tables
    ELSE Only({load_database(disk, Tail(names), more)
               : more \in {Put(tables, Head(names),
                                from_dict(json_load(disk[Head(names)])))}})

(***************************************************************************)
(* Executor.                                                               *)
(***************************************************************************)
NoMessage == [kind |-> "none"]
Message(text) == [kind |-> "message", text |-> text]

QueryResult(columns, rows, rows_affected, message) ==
    [columns |-> columns, rows |-> rows, rows_affected |-> rows_affected,
     message |-> message]

\* A comparison that finds no order between a number and a text, instead of
\* failing.
compare_unordered_false(operator, a, b) ==
    IF operator = "=" THEN Return(PyEq(a, b))
    ELSE IF operator = "!=" THEN Return(~PyEq(a, b))
    ELSE IF IsNumber(a) /\ IsNumber(b)
    THEN Return(CASE operator = ">" -> NumLess(b, a)
                  [] operator = "<" -> NumLess(a, b)
                  [] operator = ">=" -> ~NumLess(a, b)
                  [] operator = "<=" -> ~NumLess(b, a))
    ELSE IF a.kind = "str" /\ b.kind = "str"
    THEN Return(CASE operator = ">" -> StrLess(b.cs, a.cs)
                  [] operator = "<" -> StrLess(a.cs, b.cs)
                  [] operator = ">=" -> ~StrLess(a.cs, b.cs)
                  [] operator = "<=" -> ~StrLess(b.cs, a.cs))
    ELSE Return(FALSE)

\* operator_map[condition.operator](row_value, compare_value)
compare(operator, a, b) ==
    IF operator = "=" THEN Return(PyEq(a, b))
    ELSE IF operator = "!=" THEN Return(~PyEq(a, b))
    ELSE IF IsNumber(a) /\ IsNumber(b)
    THEN Return(CASE operator = ">" -> NumLess(b, a)
                  [] operator = "<" -> NumLess(a, b)
                  [] operator = ">=" -> ~NumLess(a, b)
                  [] operator = "<=" -> ~NumLess(b, a))
    ELSE IF a.kind = "str" /\ b.kind = "str"
    THEN Return(CASE operator = ">" -> StrLess(b.cs, a.cs)
                  [] operator = "<" -> StrLess(a.cs, b.cs)
                  [] operator = ">=" -> ~StrLess(a.cs, b.cs)
                  [] operator = "<=" -> ~StrLess(b.cs, a.cs))
    ELSE Raise("TypeError",
               "'" \o operator \o "' not supported between instances of '"
               \o TypeName(a) \o "' and '" \o TypeName(b) \o "'")

\* Executor.evaluate_condition
evaluate_condition(row, condition) ==
    IF ~Has(row, condition.column)
    THEN Raise("ValueError", "Column '" \o condition.column \o "' not found in row")
    ELSE IF condition.operator \notin {"=", ">", "<", ">=", "<=", "!="}
    THEN Raise("ValueError", "Unknown operator: " \o condition.operator)
    ELSE compare(condition.operator, Get(row, condition.column), condition.value)

\* Executor.evaluate_where leaving the right operand alone when the left one
\* decides, as `and` and `or` do with expressions.
RECURSIVE evaluate_where_short_circuit(_, _)
evaluate_where_short_circuit(row, where) ==
    IF where.node = "Condition" THEN evaluate_condition(row, where)
    ELSE IF where.node = "CompoundCondition"
    THEN Only({IF ~left_result.ok THEN left_result
               ELSE IF where.operator = "AND"
               THEN IF ~left_result.val THEN left_result
                    ELSE evaluate_where_short_circuit(row, where.right)
               ELSE IF where.operator = "OR"
               THEN IF left_result.val THEN left_result
                    ELSE evaluate_where_short_circuit(row, where.right)
               ELSE Raise("ValueError", "Unknown logical operator: " \o where.operator)
               : left_result \in {evaluate_where_short_circuit(row, where.left)}})
    ELSE Raise("ValueError", "Unknown WHERE clause type")

\* Executor.evaluate_where
RECURSIVE evaluate_where(_, _)
evaluate_where(row, where) ==
    IF where.node = "Condition" THEN evaluate_condition(row, where)
    ELSE IF where.node = "CompoundCondition"
    THEN Only({IF ~left_result.ok THEN left_result ELSE
         Only({IF ~right_result.ok THEN right_result
               ELSE IF where.operator = "AND"
               THEN Return(left_result.val /\ right_result.val)
               ELSE IF where.operator = "OR"
               THEN Return(left_result.val \/ right_result.val)
               ELSE Raise("ValueError", "Unknown logical operator: " \o where.operator)
               : right_result \in {evaluate_where(row, where.right)}})
               : left_result \in {evaluate_where(row, where.left)}})
    ELSE Raise("ValueError", "Unknown WHERE clause type")

\* A filter that stops at the first row the WHERE expression rejects.
RECURSIVE filter_rows_until_rejected(_, _, _)
filter_rows_until_rejected(rows, where, kept) ==
    IF rows = <<>> THEN Return(kept)
    ELSE Only({IF ~r.ok THEN r
               ELSE IF ~r.val THEN Return(kept)
               ELSE filter_rows_until_rejected(Tail(rows), where, Append(kept, Head(rows)))
               : r \in {evaluate_where(Head(rows), where)}})

\* [row for row in rows if self.evaluate_where(row, where)]: the rows kept,
\* or the failure on the first row whose evaluation fails.
RECURSIVE filter_rows(_, _, _)
filter_rows(rows, where, kept) ==
    IF rows = <<>> THEN Return(kept)
    ELSE Only({IF ~r.ok THEN r
               ELSE Only({filter_rows(Tail(rows), where, more)
                          : more \in {IF r.val THEN Append(kept, Head(rows)) ELSE kept}})
               : r \in {evaluate_where(Head(rows), where)}})

\* A SELECT that takes the list as written without looking at the schema.
resolve_columns_unchecked(table, statement) ==
    IF statement.columns = <<"*">> THEN Return(get_column_names(table))
    ELSE Return(statement.columns)

\* A SELECT that returns the schema's columns whatever the list says.
resolve_columns_declared(table, statement) == Return(get_column_names(table))

\* The columns a SELECT returns: the schema's for `*`, else the list as
\* written once every name in it is a column of the table.
resolve_columns(table, statement) ==
    IF statement.columns = <<"*">> THEN Return(get_column_names(table))
    ELSE LET table_columns == Range(get_column_names(table))
             missing == {i \in DOMAIN statement.columns :
                           statement.columns[i] \notin table_columns}
             first == CHOOSE i \in missing : \A j \in missing : i <= j
         IN  IF missing /= {}
             THEN Raise("ValueError",
                        "Column '" \o statement.columns[first]
                        \o "' does not exist in table '" \o statement.table \o "'")
             ELSE Return(statement.columns)

\* {col: row.get(col) for col in columns}
project(row, columns) == DictOfFrom(columns, row, 1, EmptyDict)

\* A SELECT that validates its column list before it filters the rows.
execute_select_columns_first(tables, statement) ==
    Only({IF table = None
          THEN Raise("ValueError", "Table '" \o statement.table \o "' does not exist") ELSE
    Only({IF ~columns.ok THEN columns ELSE
    Only({IF ~rows.ok THEN rows
          ELSE Return(QueryResult(
                   columns.val,
                   [i \in DOMAIN rows.val |-> project(rows.val[i], columns.val)],
                   0, NoMessage))
          : rows \in {IF statement.where /= None
                      THEN filter_rows(table.rows, statement.where, <<>>)
                      ELSE Return(table.rows)}})
          : columns \in {resolve_columns(table, statement)}})
          : table \in {get_table(tables, statement.table)}})

\* Executor.execute_select
execute_select(tables, statement) ==
    Only({IF table = None
          THEN Raise("ValueError", "Table '" \o statement.table \o "' does not exist") ELSE
    Only({IF ~rows.ok THEN rows ELSE
    Only({IF ~columns.ok THEN columns
          ELSE Return(QueryResult(
                   columns.val,
                   [i \in DOMAIN rows.val |-> project(rows.val[i], columns.val)],
                   0, NoMessage))
          : columns \in {resolve_columns(table, statement)}})
          : rows \in {IF statement.where /= None
                      THEN filter_rows(table.rows, statement.where, <<>>)
                      ELSE Return(table.rows)}})
          : table \in {get_table(tables, statement.table)}})

\* Executor.execute_insert
execute_insert(tables, disk, statement) ==
    Only({
    Only({IF ~r.ok THEN r
          ELSE Done(QueryResult(<<>>, <<>>, 1,
                                Message("1 row inserted into '" \o statement.table \o "'")),
                    r.tables, r.disk)
          : r \in {insert_row(tables, disk, statement.table, row)}})
          : row \in {DictZip(statement.columns, statement.values)}})

\* Executor.execute_create_table
execute_create_table(tables, disk, statement) ==
    Only({IF ~r.ok THEN r
          ELSE Done(QueryResult(<<>>, <<>>, 0,
                                Message("Table '" \o statement.table
                                        \o "' created successfully")),
                    r.tables, r.disk)
          : r \in {create_table(tables, disk, statement.table, statement.columns)}})

\* Executor.execute
executor_execute(tables, disk, statement) ==
    CASE statement.node = "SelectStatement" ->
           Only({IF r.ok THEN Done(r.val, tables, disk) ELSE Failed(r.exc, tables, disk)
                 : r \in {execute_select(tables, statement)}})
      [] statement.node = "InsertStatement" -> execute_insert(tables, disk, statement)
      [] statement.node = "CreateTableStatement" ->
           execute_create_table(tables, disk, statement)
      [] OTHER -> Failed(Exc("ValueError", "Unknown statement type"), tables, disk)

(***************************************************************************)
(* SQLEngine.                                                              *)
(***************************************************************************)
\* Steps 1 and 2 of SQLEngine.execute: the statement, or the failure of the
\* lexer or of the parser.
compile(sql) ==
    Only({IF ~tokens.ok THEN tokens ELSE parse(tokens.val) : tokens \in {tokenize(sql)}})

\* An `except ValueError` in the place of `except Exception`.
caught_value_errors(exc) == exc.type = "ValueError"

\* The classes `except Exception` catches.
ExceptionSubclasses == {"Exception", "ValueError", "TypeError", "AttributeError"}
caught(exc) == exc.type \in ExceptionSubclasses

\* SQLEngine.execute on an already compiled text: what the try block did
\* (tried), and what the call returns or lets escape.
engine_execute(compiled, tables, disk) ==
    Only({[tried |-> tried,
           outcome |-> IF tried.ok THEN Return(tried.val)
                       ELSE IF caught(tried.exc)
                       THEN Return(QueryResult(<<>>, <<>>, 0,
                                               Message("Error: " \o tried.exc.msg)))
                       ELSE [ok |-> FALSE, exc |-> tried.exc]]
          : tried \in {IF ~compiled.ok THEN Failed(compiled.exc, tables, disk)
                       ELSE executor_execute(tables, disk, compiled.val)}})

\* SQLEngine.describe_table
RECURSIVE describe_columns(_)
describe_columns(columns) ==
    IF columns = <<>> THEN ""
    ELSE LET col == Head(columns)
         IN  "  - " \o col.name \o ": " \o col.data_type
             \o (IF Truthy(col.size) THEN "(" \o PyRepr(col.size) \o ")" ELSE "")
             \o "\n" \o describe_columns(Tail(columns))

describe_table(tables, table_name) ==
    LET table == get_table(tables, table_name)
    IN  IF table = None THEN "Table '" \o table_name \o "' does not exist"
        ELSE "Table: " \o table_name \o "\n" \o "Columns:" \o "\n"
             \o describe_columns(table.columns)
             \o "\n" \o "Total rows: " \o ToStr(Len(table.rows))

(***************************************************************************)
(* The texts passed to execute, written character by character the way a   *)
(* caller writes them.                                                     *)
(***************************************************************************)
kSELECT == <<"S", "E", "L", "E", "C", "T">>
kFROM == <<"F", "R", "O", "M">>
kWHERE == <<"W", "H", "E", "R", "E">>
kINSERT == <<"I", "N", "S", "E", "R", "T">>
kINTO == <<"I", "N", "T", "O">>
kVALUES == <<"V", "A", "L", "U", "E", "S">>
kCREATE == <<"C", "R", "E", "A", "T", "E">>
kTABLE == <<"T", "A", "B", "L", "E">>
kINT == <<"I", "N", "T">>
kVARCHAR == <<"V", "A", "R", "C", "H", "A", "R">>
kAND == <<"A", "N", "D">>
kOR == <<"O", "R">>
SP == <<" ">>
Quoted(cs) == <<"'">> \o cs \o <<"'">>

\* items joined by ", "
RECURSIVE CommaSep(_)
CommaSep(items) ==
    IF items = <<>> THEN <<>>
    ELSE IF Len(items) = 1 THEN items[1]
    ELSE items[1] \o <<",", " ">> \o CommaSep(Tail(items))

\* A column declaration as written: name, type keyword, size digits (none
\* when no size is written).
Decl(name, type, size) == [name |-> name, type |-> type, size |-> size]
DeclText(d) ==
    d.name \o SP \o d.type \o (IF d.size = <<>> THEN <<>> ELSE <<"(">> \o d.size \o <<")">>)

\* CREATE TABLE <table> (<decls>)
CreateText(table, decls) ==
    kCREATE \o SP \o kTABLE \o SP \o table \o SP
    \o <<"(">> \o CommaSep([i \in DOMAIN decls |-> DeclText(decls[i])]) \o <<")">>

\* INSERT INTO <table> (<cols>) VALUES (<lits>)
InsertText(table, cols, lits) ==
    kINSERT \o SP \o kINTO \o SP \o table \o SP \o <<"(">> \o CommaSep(cols) \o <<")">>
    \o SP \o kVALUES \o SP \o <<"(">> \o CommaSep(lits) \o <<")">>

\* SELECT <cols> FROM <table> [WHERE <where>]
SelectText(cols, table, where) ==
    kSELECT \o SP \o CommaSep(cols) \o SP \o kFROM \o SP \o table
    \o (IF where = <<>> THEN <<>> ELSE SP \o kWHERE \o SP \o where)

\* <column> <op> <literal>, and two conditions joined by AND or OR
CondText(col, op, lit) == col \o SP \o op \o SP \o lit
JoinText(p, kw, q) == p \o SP \o kw \o SP \o q

STAR == <<"*">>
ta == <<"a">>
tb == <<"b">>
tc == <<"c">>
tt == <<"t">>
tu == <<"u">>

\* The declarations CREATE TABLE is called with: sized and unsized VARCHAR,
\* both column orders, a size of 0, a fractional size, a repeated name.
DeclsAB == <<Decl(ta, kINT, <<>>), Decl(tb, kVARCHAR, <<"2">>)>>
DeclsBA == <<Decl(tb, kVARCHAR, <<>>), Decl(ta, kINT, <<>>)>>
DeclsAA == <<Decl(ta, kINT, <<>>), Decl(ta, kVARCHAR, <<"1", ".", "5">>)>>
DeclsA == <<Decl(ta, kINT, <<>>)>>
DeclsB0 == <<Decl(tb, kVARCHAR, <<"0">>)>>

CreateCases ==
    {[table |-> tt, decls |-> DeclsAB], [table |-> tt, decls |-> DeclsBA],
     [table |-> tt, decls |-> DeclsAA], [table |-> tu, decls |-> DeclsA],
     [table |-> tu, decls |-> DeclsB0]}

\* The rows INSERT is called with: valid in either column order, partial,
\* text too long for VARCHAR(2), wrong kinds, an undeclared column, fewer
\* values than columns.
InsertCases ==
    {[table |-> tt, cols |-> <<ta, tb>>, lits |-> <<<<"1">>, Quoted(<<"x">>)>>],
     [table |-> tt, cols |-> <<tb, ta>>, lits |-> <<Quoted(<<"y", "z">>), <<"2">>>>],
     [table |-> tt, cols |-> <<ta>>, lits |-> <<<<"2">>>>],
     [table |-> tt, cols |-> <<ta, tb>>, lits |-> <<<<"1">>, Quoted(<<"x", "y", "z">>)>>],
     [table |-> tt, cols |-> <<ta, tb>>, lits |-> <<Quoted(<<"x">>), <<"1">>>>],
     [table |-> tt, cols |-> <<tc>>, lits |-> <<<<"1">>>>],
     [table |-> tt, cols |-> <<ta>>, lits |-> <<<<"1", ".", "5">>>>],
     [table |-> tu, cols |-> <<ta>>, lits |-> <<<<"1">>>>],
     [table |-> tu, cols |-> <<tb>>, lits |-> <<Quoted(<<"x">>)>>]}

\* The queries SELECT is called with.
SelectCases ==
    {[cols |-> <<STAR>>, table |-> tt, where |-> <<>>],
     [cols |-> <<tb, ta>>, table |-> tt, where |-> <<>>],
     [cols |-> <<ta, tb>>, table |-> tt, where |-> <<>>],
     [cols |-> <<tc>>, table |-> tt, where |-> <<>>],
     [cols |-> <<STAR>>, table |-> tu, where |-> <<>>],
     [cols |-> <<ta>>, table |-> tt, where |-> CondText(ta, <<">">>, <<"1">>)],
     [cols |-> <<STAR>>, table |-> tt, where |-> CondText(tb, <<"=">>, Quoted(<<"x">>))],
     [cols |-> <<STAR>>, table |-> tt, where |-> CondText(ta, <<"<">>, Quoted(<<"x">>))],
     [cols |-> <<tb>>, table |-> tu, where |-> CondText(tc, <<"=">>, <<"1">>)],
     [cols |-> <<tc>>, table |-> tt, where |-> CondText(ta, <<">">>, <<"1">>)],
     [cols |-> <<tc>>, table |-> tt, where |-> CondText(ta, <<"<">>, Quoted(<<"x">>))]}

\* Texts that are no statement: empty, blank, an unknown character, an
\* unterminated string, a number with two dots, a missing table name.
BrokenTexts ==
    {<<>>, SP,
     kSELECT \o SP \o <<"#">>,
     SelectText(<<STAR>>, tt, CondText(tb, <<"=">>, <<"'", "x">>)),
     InsertText(tt, <<ta>>, <<<<"1", ".", "2", ".", "3">>>>),
     kSELECT \o SP \o ta \o SP \o kFROM,
     kCREATE \o SP \o kTABLE \o SP \o tu \o SP \o <<"(">> \o ta \o SP \o kINT}

CreateTexts == {CreateText(c.table, c.decls) : c \in CreateCases}
InsertTexts == {InsertText(c.table, c.cols, c.lits) : c \in InsertCases}
SelectTexts == {SelectText(c.cols, c.table, c.where) : c \in SelectCases}
Texts == CreateTexts \cup InsertTexts \cup SelectTexts \cup BrokenTexts

\* Scenario A: the users table of examples.py and test.py.
w_users == <<"u", "s", "e", "r", "s">>
w_id == <<"i", "d">>
w_name == <<"n", "a", "m", "e">>
w_age == <<"a", "g", "e">>
w_zip == <<"z", "i", "p">>
w_Alice == <<"A", "l", "i", "c", "e">>
w_Bob == <<"B", "o", "b">>
w_Charlie == <<"C", "h", "a", "r", "l", "i", "e">>
w_Dan == <<"D", "a", "n">>

DeclsUsers ==
    <<Decl(w_id, kINT, <<>>), Decl(w_name, kVARCHAR, <<"5", "0">>), Decl(w_age, kINT, <<>>)>>
UserColumns == <<w_id, w_name, w_age>>
UserText(id, name, age) == InsertText(w_users, UserColumns, <<id, Quoted(name), age>>)

\* The statements that set Scenario A up, in the order they are executed.
FixtureTexts ==
    <<CreateText(w_users, DeclsUsers),
      UserText(<<"1">>, w_Alice, <<"2", "5">>),
      UserText(<<"2">>, w_Bob, <<"3", "0">>),
      UserText(<<"3">>, w_Charlie, <<"3", "5">>)>>

\* The conditions queried on users: numeric and text comparisons, a number
\* compared with a text, a column the table does not have.
AgeOver26 == CondText(w_age, <<">">>, <<"2", "6">>)
AgeUnder32 == CondText(w_age, <<"<">>, <<"3", "2">>)
QueryConds ==
    {AgeOver26, AgeUnder32,
     CondText(w_name, <<"=">>, Quoted(w_Bob)),
     CondText(w_id, <<"!", "=">>, <<"2">>),
     CondText(w_age, <<"<">>, Quoted(w_Bob)),
     CondText(w_zip, <<"=">>, <<"1">>)}

\* SELECT with one condition, and with two joined by AND or OR.
SingleCases ==
    {[cols |-> cols, table |-> w_users, where |-> p] :
       cols \in {<<STAR>>, <<w_name, w_age>>}, p \in QueryConds}
JoinCases ==
    {[cols |-> <<STAR>>, table |-> w_users, p |-> p, kw |-> kw, q |-> q] :
       p \in QueryConds, kw \in {kAND, kOR}, q \in QueryConds}
\* SELECT with three conditions in a chain: three different conditions,
\* written without blanks, in every order and with every pair of AND and OR.
Over26 == w_age \o <<">">> \o <<"2", "6">>
Under32 == w_age \o <<"<">> \o <<"3", "2">>
NameIsBob == w_name \o <<"=">> \o Quoted(w_Bob)
ChainConds == {Over26, Under32, NameIsBob}
ChainCases ==
    {c \in [c1 : ChainConds, op1 : {kAND, kOR}, c2 : ChainConds,
            op2 : {kAND, kOR}, c3 : ChainConds] :
       {c.c1, c.c2, c.c3} = ChainConds}
ChainText(c) ==
    SelectText(<<STAR>>, w_users, JoinText(JoinText(c.c1, c.op1, c.c2), c.op2, c.c3))
\* Two conditions of which one decides the result on every row, id > 0
\* under OR and id < 0 under AND, and the other cannot be evaluated.
IdOver0 == CondText(w_id, <<">">>, <<"0">>)
IdUnder0 == CondText(w_id, <<"<">>, <<"0">>)
DecidedCases ==
    {[cols |-> <<STAR>>, table |-> w_users, p |-> IdOver0, kw |-> kOR, q |-> q] :
       q \in {CondText(w_age, <<"<">>, Quoted(w_Bob)), CondText(w_zip, <<"=">>, <<"1">>)}}
    \cup {[cols |-> <<STAR>>, table |-> w_users, p |-> IdUnder0, kw |-> kAND, q |-> q] :
       q \in {CondText(w_age, <<"<">>, Quoted(w_Bob)), CondText(w_zip, <<"=">>, <<"1">>)}}
    \cup {[cols |-> <<STAR>>, table |-> w_users,
           p |-> CondText(w_zip, <<"=">>, <<"1">>), kw |-> kOR, q |-> IdOver0],
          [cols |-> <<STAR>>, table |-> w_users,
           p |-> CondText(w_age, <<"<">>, Quoted(w_Bob)), kw |-> kAND, q |-> IdUnder0]}
\* Statements with something after them.  The statements: a SELECT without
\* and with WHERE, an INSERT, a CREATE TABLE.  What follows: a semicolon,
\* tokens that start no statement, a second statement after a semicolon;
\* and tokens the grammar of SELECT goes on with, WHERE after the table and
\* OR after a condition.
w_z == <<"z">>
SelectUsers == SelectText(<<STAR>>, w_users, <<>>)
SelectSome == SelectText(<<STAR>>, w_users, w_id \o <<">", "0">>)
InsertFive == InsertText(w_users, <<w_id>>, <<<<"5">>>>)
CreateZ == CreateText(w_z, <<Decl(w_id, kINT, <<>>)>>)
InsertNineAfter ==
    <<";">> \o kINSERT \o SP \o kINTO \o SP \o w_users \o <<"(">> \o w_id \o <<")">>
    \o kVALUES \o <<"(", "9", ")">>
TailCases ==
    {[base |-> base, tail |-> tail] :
       base \in {SelectUsers, SelectSome, InsertFive, CreateZ},
       tail \in {<<";">>, <<")", "1", "'", "x", "'", "=">>}}
    \cup {[base |-> SelectUsers, tail |-> InsertNineAfter],
          [base |-> InsertFive, tail |-> <<";">> \o SelectUsers],
          [base |-> CreateZ, tail |-> <<";">> \o SelectUsers]}
ContinuedCases ==
    {[base |-> SelectUsers, tail |-> SP \o kWHERE],
     [base |-> SelectUsers, tail |-> SP \o kWHERE \o SP \o w_id \o <<">", "0">>],
     [base |-> SelectSome, tail |-> SP \o kOR]}
ScenarioAQuery == SelectText(<<w_name, w_age>>, w_users, JoinText(AgeOver26, kAND, AgeUnder32))

\* Further rows inserted into users: a fourth user, a second Bob, a row
\* that has only an id.
MoreUsers ==
    {UserText(<<"4">>, w_Dan, <<"3", "0">>),
     UserText(<<"2">>, w_Bob, <<"3", "0">>),
     InsertText(w_users, <<w_id>>, <<<<"5">>>>)}

\* INSERTs whose lists differ in length: more names than values, more
\* values than names, and more values than names with a first value the
\* column refuses.
UnevenInserts ==
    {InsertText(w_users, <<w_id, w_name, w_age>>, <<<<"5">>>>),
     InsertText(w_users, <<w_id>>, <<<<"5">>, Quoted(w_Dan), <<"2", "0">>>>),
     InsertText(w_users, <<w_id>>, <<Quoted(w_Dan), <<"7">>>>)}

\* Conditions that compare a column with a literal of the other kind: the
\* INT column id with a text, the VARCHAR column name with an integer and
\* with a fraction, under each of the six operators.
Operators == {<<"=">>, <<"!", "=">>, <<">">>, <<"<">>, <<">", "=">>, <<"<", "=">>}
MixedCases ==
    {[col |-> w_id, op |-> op, lit |-> Quoted(<<"x">>)] : op \in Operators}
    \cup {[col |-> w_name, op |-> op, lit |-> <<"1">>] : op \in Operators}
    \cup {[col |-> w_name, op |-> op, lit |-> <<"1", ".", "5">>] : op \in {<<"=">>, <<"<">>}}
MixedText(c) == SelectText(<<STAR>>, w_users, c.col \o c.op \o c.lit)

QueryTexts ==
    {SelectText(c.cols, c.table, c.where) : c \in SingleCases}
    \cup {SelectText(c.cols, c.table, JoinText(c.p, c.kw, c.q)) : c \in JoinCases}
    \cup {SelectText(<<STAR>>, w_users, <<>>), ScenarioAQuery}
    \cup {SelectText(<<STAR>>, w_users, p) : p \in ChainConds}
    \cup {ChainText(c) : c \in ChainCases}
    \cup {SelectText(c.cols, c.table, JoinText(c.p, c.kw, c.q)) : c \in DecidedCases}
    \cup {SelectText(<<STAR>>, w_users, p) : p \in {IdOver0, IdUnder0}}
    \cup {c.base \o c.tail : c \in TailCases \cup ContinuedCases}
    \cup {SelectSome, InsertFive, CreateZ}
    \cup {MixedText(c) : c \in MixedCases}
    \cup MoreUsers
    \cup UnevenInserts

\* Steps 1 and 2 of SQLEngine.execute depend on the text alone.
Compiled == [sql \in Texts \cup QueryTexts \cup Range(FixtureTexts) |-> compile(sql)]

(***************************************************************************)
(* The engine as a state machine.                                          *)
(***************************************************************************)
VARIABLES
    tables,     \* engine.storage.tables
    disk,       \* the .json files of the database directory
    last        \* the last call on the engine and what it returned

vars == <<tables, disk, last>>

\* The most rows the tables of a database hold together.
MaxRows == 2

RECURSIVE SumRows(_, _)
SumRows(ts, names) ==
    IF names = <<>> THEN 0 ELSE Len(ts.val[Head(names)].rows) + SumRows(ts, Tail(names))
TotalRows(ts) == SumRows(ts, ts.keys)

\* The orders os.listdir can list the files in.
Orders(S) == {o \in [1..Cardinality(S) -> S] : \A i, j \in DOMAIN o : i /= j => o[i] /= o[j]}

\* SQLEngine(db_path) on an empty directory.
Init ==
    /\ tables = EmptyDict
    /\ disk = [n \in {} |-> None]
    /\ last = [op |-> "open"]

\* engine.execute(sql)
Execute(sql, maxRows) ==
    \E r \in {engine_execute(Compiled[sql], tables, disk)} :
        /\ TotalRows(r.tried.tables) <= maxRows
        /\ tables' = r.tried.tables
        /\ disk' = r.tried.disk
        /\ last' = [op |-> "execute", sql |-> sql,
                    failure |-> IF r.tried.ok THEN None ELSE r.tried.exc,
                    outcome |-> r.outcome]

\* engine.describe_table(table_name)
DescribeTable(table_name) ==
    /\ last' = [op |-> "describe", table_name |-> table_name,
                text |-> describe_table(tables, table_name)]
    /\ UNCHANGED <<tables, disk>>

\* A new SQLEngine on the same directory: StorageEngine.__init__.
Reopen ==
    \E names \in Orders(DOMAIN disk) :
        /\ tables' = load_database(disk, names, EmptyDict)
        /\ last' = [op |-> "open"]
        /\ UNCHANGED disk

Next ==
    \/ \E sql \in Texts : Execute(sql, MaxRows)
    \/ \E name \in {"t", "u"} : DescribeTable(name)
    \/ Reopen

Spec == Init /\ [][Next]_vars

(***************************************************************************)
(* The engine opened on the database Scenario A's setup leaves behind, and *)
(* queried.                                                                *)
(***************************************************************************)
MaxQueryRows == 4

\* The storage after executing texts[i..] from (tables, disk).
RECURSIVE RunFrom(_, _, _, _)
RunFrom(texts, i, ts, dk) ==
    IF i > Len(texts) THEN [tables |-> ts, disk |-> dk]
    ELSE Only({RunFrom(texts, i + 1, r.tried.tables, r.tried.disk)
               : r \in {engine_execute(Compiled[texts[i]], ts, dk)}})

Fixture == RunFrom(FixtureTexts, 1, EmptyDict, [n \in {} |-> None])

InitQuery ==
    /\ tables = load_database(Fixture.disk, <<"users">>, EmptyDict)
    /\ disk = Fixture.disk
    /\ last = [op |-> "open"]

NextQuery == \E sql \in QueryTexts : Execute(sql, MaxQueryRows)

SpecQuery == InitQuery /\ [][NextQuery]_vars

(***************************************************************************)
(* The lexer on its own, one iteration of the loop of Lexer.tokenize per   *)
(* step: last holds the Lexer's text, its position and the tokens so far.  *)
(* The texts are all those of at most MaxTextLen characters of             *)
(* LexAlphabet: a blank, a letter, a digit, the dot, the quote, an         *)
(* operator of one character, one that starts an operator of two, and a   *)
(* character the lexer does not know.                                      *)
(***************************************************************************)
MaxTextLen == 4

LexAlphabet == {" ", "a", "1", ".", "'", "=", "<", "#"}

LexTexts == UNION {[1..n -> LexAlphabet] : n \in 0..MaxTextLen}

Lexing(sql, position, tokens, state, failure) ==
    [op |-> "tokenize", sql |-> sql, position |-> position, tokens |-> tokens,
     state |-> state, failure |-> failure]

InitLex ==
    /\ tables = EmptyDict
    /\ disk = [n \in {} |-> None]
    /\ \E sql \in LexTexts : last = Lexing(sql, 0, <<>>, "running", None)

\* An iteration of the loop that skips whitespace or appends a token.
LexLoop ==
    /\ last.state = "running"
    /\ ~AtEnd(last.sql, last.position)
    /\ \E r \in {LexStep(last.sql, last.position)} :
         /\ r.ok
         /\ last' = Lexing(last.sql, r.val.pos, last.tokens \o r.val.toks, "running", None)
    /\ UNCHANGED <<tables, disk>>

\* An iteration of the loop that raises.
LexRaise ==
    /\ last.state = "running"
    /\ ~AtEnd(last.sql, last.position)
    /\ \E r \in {LexStep(last.sql, last.position)} :
         /\ ~r.ok
         /\ last' = Lexing(last.sql, last.position, last.tokens, "raised", r.exc)
    /\ UNCHANGED <<tables, disk>>

\* The loop is left at the end of the text and the tokens are returned.
LexReturn ==
    /\ last.state = "running"
    /\ AtEnd(last.sql, last.position)
    /\ last' = Lexing(last.sql, last.position,
                      end_of_input(last.tokens, last.position), "returned", None)
    /\ UNCHANGED <<tables, disk>>

NextLex == LexLoop \/ LexRaise \/ LexReturn

\* The loop runs on as long as it can.
SpecLex == InitLex /\ [][NextLex]_vars /\ WF_vars(NextLex)


(***************************************************************************)
(* Properties.                                                             *)
(***************************************************************************)
\* The QueryResult execute returns for a failure described by msg.
ErrorResult(msg) == QueryResult(<<>>, <<>>, 0, Message("Error: " \o msg))

\* dict(zip(columns, values)) of a parsed INSERT.
RowOf(statement) == DictZip(statement.columns, statement.values)

\* C1: execute never raises.  Whatever the text, the call returns a
\* QueryResult, and when tokenizing, parsing or executing failed, that
\* result is the message "Error: " followed by the failure's description,
\* with no columns, no rows and rows_affected = 0.
C1_ExecuteNeverRaises ==
    last.op = "execute" =>
        /\ last.outcome.ok
        /\ last.failure /= None => last.outcome.val = ErrorResult(last.failure.msg)

\* A comparison of a number with a text failed with a TypeError, and execute
\* returned.
C1_TypeErrorReturned ==
    /\ last.op = "execute"
    /\ last.failure /= None
    /\ last.failure.type = "TypeError"
    /\ last.outcome.ok

\* C2: an INSERT whose row fails validation (unknown column, wrong scalar
\* kind, text longer than the declared size) leaves the rows of the target
\* table and its persisted record exactly as they were before the call.
C2_FailedInsertChangesNothing ==
    [][\A sql \in InsertTexts :
         LET statement == Compiled[sql].val
             before == get_table(tables, statement.table)
         IN  (/\ last'.op = "execute"
              /\ last'.sql = sql
              /\ table_exists(tables, statement.table)
              /\ ~validate_row(before, RowOf(statement)).ok)
             => /\ get_table(tables', statement.table).rows = before.rows
                /\ disk'[statement.table] = disk[statement.table]
                /\ last'.failure /= None]_vars

\* A text longer than the declared size was refused by a table that has a
\* row.
C2_TooLongRefused ==
    /\ last.op = "execute"
    /\ last.sql \in InsertTexts
    /\ last.failure /= None
    /\ last.failure.msg = "Value for 'b' exceeds maximum length of 2"
    /\ Len(get_table(tables, "t").rows) >= 1

\* C3: for an existing table and a row that passes validation, INSERT
\* succeeds with rows_affected = 1 and the table's rows afterwards are the
\* rows before, in their order, followed by the new row.
C3_InsertAppendsOneRow ==
    [][\A sql \in InsertTexts :
         LET statement == Compiled[sql].val
             before == get_table(tables, statement.table)
         IN  (/\ last'.op = "execute"
              /\ last'.sql = sql
              /\ table_exists(tables, statement.table)
              /\ validate_row(before, RowOf(statement)).ok)
             => /\ get_table(tables', statement.table).rows
                     = Append(before.rows, RowOf(statement))
                /\ Len(get_table(tables', statement.table).rows) = Len(before.rows) + 1
                /\ last'.outcome.ok
                /\ last'.outcome.val.rows_affected = 1]_vars

\* An INSERT succeeded on a table that had a different row already.
C3_SecondRowInserted ==
    /\ last.op = "execute"
    /\ last.sql \in InsertTexts
    /\ last.failure = None
    /\ table_exists(tables, "t")
    /\ Len(get_table(tables, "t").rows) = 2
    /\ get_table(tables, "t").rows[1] /= get_table(tables, "t").rows[2]

\* C4: in every reachable state, a new StorageEngine opened on the same
\* root, whatever the order it reads the files in, holds the same table
\* names and for each the same name, ordered column definitions and ordered
\* rows as the engine in memory; and from_dict(to_dict(T)) = T for every
\* table T in memory.
C4_ReopenYieldsSameTables ==
    \A names \in Orders(DOMAIN disk) :
        LET reopened == load_database(disk, names, EmptyDict)
        IN  /\ Range(reopened.keys) = Range(tables.keys)
            /\ \A n \in Range(tables.keys) :
                 /\ get_table(reopened, n) = get_table(tables, n)
                 /\ from_dict(to_dict(get_table(tables, n))) = get_table(tables, n)

\* An engine was reopened on a sized VARCHAR column and two rows.
C4_ReopenedWithRows ==
    /\ last.op = "open"
    /\ table_exists(tables, "t")
    /\ get_table(tables, "t").columns[2].size = PyInt(2)
    /\ Len(get_table(tables, "t").rows) = 2

\* The result of SELECT * FROM users [WHERE where] in the current state.
Selected(where) ==
    engine_execute(Compiled[SelectText(<<STAR>>, w_users, where)], tables, disk).outcome.val

\* C5: when the WHERE expression of a SELECT evaluates without failure on
\* every row of the table, the SELECT succeeds and returns the projections of
\* exactly the rows on which evaluate_where is true, each decided on its own,
\* in the table's insertion order.
C5_WhereFiltersRowByRow ==
    \A sql \in QueryTexts :
        (/\ last.op = "execute"
         /\ last.sql = sql
         /\ Compiled[sql].ok
         /\ Compiled[sql].val.node = "SelectStatement"
         /\ Compiled[sql].val.where /= None)
        => LET statement == Compiled[sql].val
               rows == get_table(tables, statement.table).rows
               Holds(row) == evaluate_where(row, statement.where).val
               kept == SelectSeq(rows, Holds)
           IN  (\A i \in DOMAIN rows : evaluate_where(rows[i], statement.where).ok)
               => /\ last.failure = None
                  /\ last.outcome.val.rows
                       = [i \in DOMAIN kept |-> project(kept[i], last.outcome.val.columns)]

\* WHERE age > 26 returned the two later of three users and left the first
\* out.
C5_TwoOfThreeKept ==
    /\ last.op = "execute"
    /\ last.sql = SelectText(<<STAR>>, w_users, AgeOver26)
    /\ Len(get_table(tables, "users").rows) = 3
    /\ Len(last.outcome.val.rows) = 2

\* The row Scenario A expects.
BobNameAge ==
    [keys |-> <<"name", "age">>,
     val |-> [k \in {"name", "age"} |-> IF k = "name" THEN PyStr(w_Bob) ELSE PyInt(30)]]

\* The rows of users after Scenario A's inserts.
UserRow(id, name, age) ==
    [keys |-> <<"id", "name", "age">>,
     val |-> [k \in {"id", "name", "age"} |->
                CASE k = "id" -> PyInt(id) [] k = "name" -> PyStr(name) [] k = "age" -> PyInt(age)]]
ScenarioARows == <<UserRow(1, w_Alice, 25), UserRow(2, w_Bob, 30), UserRow(3, w_Charlie, 35)>>

\* C6: for conditions p and q that evaluate without error on every row,
\* WHERE p AND q returns exactly the rows of the table returned by both
\* WHERE p and WHERE q, and WHERE p OR q exactly those returned by at least
\* one of them; and on the users rows (1,'Alice',25), (2,'Bob',30),
\* (3,'Charlie',35), SELECT name, age FROM users WHERE age > 26 AND age < 32
\* returns exactly [{name: 'Bob', age: 30}].
C6_AndOrCompose ==
    /\ \A c \in JoinCases :
         (/\ last.op = "execute"
          /\ last.sql = SelectText(c.cols, c.table, JoinText(c.p, c.kw, c.q))
          /\ Selected(c.p).message = NoMessage
          /\ Selected(c.q).message = NoMessage)
         => LET InBoth(row) == row \in Range(Selected(c.p).rows) \cap Range(Selected(c.q).rows)
                InEither(row) == row \in Range(Selected(c.p).rows) \cup Range(Selected(c.q).rows)
            IN  /\ last.failure = None
                /\ last.outcome.val.rows
                     = IF c.kw = kAND THEN SelectSeq(Selected(<<>>).rows, InBoth)
                       ELSE SelectSeq(Selected(<<>>).rows, InEither)
    /\ (/\ last.op = "execute"
        /\ last.sql = ScenarioAQuery
        /\ get_table(tables, "users").rows = ScenarioARows)
       => last.outcome = Return(QueryResult(<<"name", "age">>, <<BobNameAge>>, 0, NoMessage))

\* Scenario A's query ran on Scenario A's three rows.
C6_ScenarioAQueried ==
    /\ last.op = "execute"
    /\ last.sql = ScenarioAQuery
    /\ get_table(tables, "users").rows = ScenarioARows
    /\ Len(last.outcome.val.rows) = 1

\* C7: a successful SELECT * returns the schema's columns in declared order,
\* whatever column order the INSERTs used; a successful SELECT with a column
\* list returns that list in the order written; and every returned row has
\* exactly the result columns as keys.
C7_ResultColumns ==
    \A c \in SelectCases :
        (/\ last.op = "execute"
         /\ last.sql = SelectText(c.cols, c.table, c.where)
         /\ last.failure = None)
        => LET result == last.outcome.val
               declared == get_table(tables, Join(c.table)).columns
           IN  /\ result.columns
                    = IF c.cols = <<STAR>> THEN [i \in DOMAIN declared |-> declared[i].name]
                      ELSE [i \in DOMAIN c.cols |-> Join(c.cols[i])]
               /\ \A i \in DOMAIN result.rows :
                    Range(result.rows[i].keys) = Range(result.columns)

\* SELECT * ran on a table declared (a, b) whose first row was inserted as
\* (b, a).
C7_StarAfterReversedInsert ==
    /\ last.op = "execute"
    /\ last.sql = SelectText(<<STAR>>, tt, <<>>)
    /\ last.failure = None
    /\ get_column_names(get_table(tables, "t")) = <<"a", "b">>
    /\ Len(get_table(tables, "t").rows) >= 1
    /\ get_table(tables, "t").rows[1].keys = <<"b", "a">>

\* The lines describe_table is to print for the declarations of a CREATE.
RECURSIVE DeclaredLines(_)
DeclaredLines(decls) ==
    IF decls = <<>> THEN ""
    ELSE "  - " \o Join(Head(decls).name) \o ": " \o Join(Head(decls).type)
         \o (IF Head(decls).size = <<>> THEN "" ELSE "(" \o Join(Head(decls).size) \o ")")
         \o "\n" \o DeclaredLines(Tail(decls))

\* C8: after a well-formed CREATE TABLE has been executed, describe_table on
\* the table's name reports the declared columns in declared order, each
\* with its declared type and, where a size was declared, that size.
C8_DescribeReportsDeclaration ==
    \A c \in CreateCases :
        (/\ last.op = "execute"
         /\ last.sql = CreateText(c.table, c.decls)
         /\ last.failure = None)
        => describe_table(tables, Join(c.table))
             = "Table: " \o Join(c.table) \o "\n" \o "Columns:" \o "\n"
               \o DeclaredLines(c.decls) \o "\n" \o "Total rows: 0"

\* C9: CREATE TABLE of a registered name fails with "already exists" and
\* leaves the existing table and its persisted record as they were; CREATE
\* TABLE of a name not registered registers a table of that name with the
\* declared column names and no rows, and persists it at once.
C9_CreateTable ==
    [][\A c \in CreateCases :
         LET name == Join(c.table)
         IN  (last'.op = "execute" /\ last'.sql = CreateText(c.table, c.decls))
             => IF table_exists(tables, name)
                THEN /\ last'.outcome
                          = Return(ErrorResult("Table '" \o name \o "' already exists"))
                     /\ get_table(tables', name) = get_table(tables, name)
                     /\ disk'[name] = disk[name]
                ELSE /\ last'.failure = None
                     /\ table_exists(tables', name)
                     /\ get_table(tables', name).name = name
                     /\ get_column_names(get_table(tables', name))
                          = [i \in DOMAIN c.decls |-> Join(c.decls[i].name)]
                     /\ get_table(tables', name).rows = <<>>
                     /\ name \in DOMAIN disk'
                     /\ from_dict(json_load(disk'[name])) = get_table(tables', name)]_vars

\* A CREATE TABLE was refused for a table that has a row.
C9_ExistingRefused ==
    /\ last.op = "execute"
    /\ last.sql \in CreateTexts
    /\ last.failure /= None
    /\ last.failure.msg = "Table 't' already exists"
    /\ Len(get_table(tables, "t").rows) >= 1

\* C10: a SELECT or an INSERT naming a table that is not registered returns
\* the QueryResult of the error "Table '<name>' does not exist", whatever
\* else the statement says, and leaves the registered tables and the
\* persisted records as they were.
C10_MissingTable ==
    [][\A sql \in SelectTexts \cup InsertTexts :
         LET name == Compiled[sql].val.table
         IN  (/\ last'.op = "execute"
              /\ last'.sql = sql
              /\ ~table_exists(tables, name))
             => /\ last'.outcome
                     = Return(ErrorResult("Table '" \o name \o "' does not exist"))
                /\ tables' = tables
                /\ disk' = disk]_vars

\* An INSERT into u was refused while only t was registered.
C10_InsertIntoMissing ==
    /\ last.op = "execute"
    /\ last.sql \in InsertTexts
    /\ last.outcome.ok
    /\ last.outcome.val.message = Message("Error: Table 'u' does not exist")
    /\ table_exists(tables, "t")
    /\ ~table_exists(tables, "u")
    /\ DOMAIN disk = {"t"}

\* The first name of a SELECT's column list that the table does not declare,
\* "" when it declares them all.
FirstUndeclared(cols, table) ==
    LET undeclared == {i \in DOMAIN cols : Join(cols[i]) \notin Range(get_column_names(table))}
    IN  IF undeclared = {} THEN ""
        ELSE Join(cols[CHOOSE i \in undeclared : \A j \in undeclared : i <= j])

\* A SELECT of SelectCases has just run on a registered table, with a list
\* naming a column the table does not declare.
UndeclaredSelected(c) ==
    /\ last.op = "execute"
    /\ last.sql = SelectText(c.cols, c.table, c.where)
    /\ c.cols /= <<STAR>>
    /\ table_exists(tables, Join(c.table))
    /\ FirstUndeclared(c.cols, get_table(tables, Join(c.table))) /= ""

\* The result of a SELECT refused for its column list.
UndeclaredRefused(c) ==
    last.outcome
      = Return(ErrorResult("Column '"
                           \o FirstUndeclared(c.cols, get_table(tables, Join(c.table)))
                           \o "' does not exist in table '" \o Join(c.table) \o "'"))

\* C11 as stated: a SELECT on an existing table whose column list names an
\* undeclared column fails with "column does not exist", whatever the rows
\* and whatever the WHERE clause.
C11_UndeclaredColumnAnyWhere ==
    \A c \in SelectCases : UndeclaredSelected(c) => UndeclaredRefused(c)

\* C11 amended: a SELECT on an existing table whose column list names an
\* undeclared column fails with "column does not exist", whatever the rows,
\* for every WHERE clause whose evaluation fails on no row of the table (and
\* without WHERE clause).
C11_UndeclaredColumnRefused ==
    \A c \in SelectCases :
        (/\ UndeclaredSelected(c)
         /\ \/ c.where = <<>>
            \/ \A i \in DOMAIN get_table(tables, Join(c.table)).rows :
                 evaluate_where(get_table(tables, Join(c.table)).rows[i],
                                Compiled[last.sql].val.where).ok)
        => UndeclaredRefused(c)

\* SELECT c ... WHERE a > 1 was refused on a table whose only row the WHERE
\* clause does not keep.
C11_RefusedThoughNoRowKept ==
    /\ last.op = "execute"
    /\ last.sql = SelectText(<<tc>>, tt, CondText(ta, <<">">>, <<"1">>))
    /\ table_exists(tables, "t")
    /\ Len(get_table(tables, "t").rows) = 1
    /\ Get(get_table(tables, "t").rows[1], "a") = PyInt(1)
    /\ last.failure /= None
    /\ last.failure.msg = "Column 'c' does not exist in table 't'"

\* The declared columns whose declaration the row's value does not fit in
\* kind: an INT column given no integer, a VARCHAR column given no text.
WrongKind(table, row) ==
    {i \in DOMAIN table.columns :
        /\ Has(row, table.columns[i].name)
        /\ \/ /\ table.columns[i].data_type = "INT"
              /\ Get(row, table.columns[i].name).kind /= "int"
           \/ /\ table.columns[i].data_type = "VARCHAR"
              /\ Get(row, table.columns[i].name).kind /= "str"}

\* The VARCHAR columns declared with a max length that the row's text exceeds.
TooLong(table, row) ==
    {i \in DOMAIN table.columns :
        /\ table.columns[i].data_type = "VARCHAR"
        /\ table.columns[i].size /= None
        /\ Has(row, table.columns[i].name)
        /\ Get(row, table.columns[i].name).kind = "str"
        /\ NumLess(table.columns[i].size,
                   PyInt(Len(Get(row, table.columns[i].name).cs)))}

\* C12: for every VARCHAR column declared with a max length N, whatever
\* NUMBER literal N is, an INSERT of a row of declared columns and fitting
\* kinds with a text longer than N fails with the length-exceeded error of
\* the first such column and the table's rows stay as they were.
C12_LongerTextRefused ==
    [][\A sql \in InsertTexts :
         LET statement == Compiled[sql].val
             before == get_table(tables, statement.table)
             row == RowOf(statement)
             exceeded == TooLong(before, row)
             col == before.columns[CHOOSE i \in exceeded : \A j \in exceeded : i <= j]
         IN  (/\ last'.op = "execute" /\ last'.sql = sql
              /\ table_exists(tables, statement.table)
              /\ \A k \in Range(row.keys) : k \in Range(get_column_names(before))
              /\ WrongKind(before, row) = {}
              /\ exceeded /= {})
             => /\ last'.failure
                     = Exc("ValueError",
                           "Value for '" \o col.name \o "' exceeds maximum length of "
                           \o PyRepr(col.size))
                /\ get_table(tables', statement.table).rows = before.rows]_vars

\* Every stored row has declared columns for keys, integers in INT columns
\* and texts in VARCHAR columns.
StoredRowsValid ==
    \A n \in Range(tables.keys) :
        \A i \in DOMAIN Get(tables, n).rows :
            LET table == Get(tables, n)
                row == table.rows[i]
            IN  /\ \A k \in Range(row.keys) : k \in Range(get_column_names(table))
                /\ \A c \in DOMAIN table.columns :
                     Has(row, table.columns[c].name)
                     => /\ table.columns[c].data_type = "INT"
                           => Get(row, table.columns[c].name).kind = "int"
                        /\ table.columns[c].data_type = "VARCHAR"
                           => Get(row, table.columns[c].name).kind = "str"

\* C13: validate_row rejects a row with a key that is no declared column
\* (unknown-column error naming the first such key) and a row whose value
\* for a declared column differs in kind from the declared type
\* (type-mismatch error, unless the length check of a column met earlier
\* fails first); and in every reachable state each stored row's keys are
\* declared columns, every stored INT value is an integer and every stored
\* VARCHAR value is text.
C13_StoredRowsWellTyped ==
    /\ []StoredRowsValid
    /\ [][\A sql \in InsertTexts :
            LET statement == Compiled[sql].val
                before == get_table(tables, statement.table)
                row == RowOf(statement)
                unknown == {i \in DOMAIN row.keys :
                               row.keys[i] \notin Range(get_column_names(before))}
                wrong == WrongKind(before, row)
                First(S) == CHOOSE i \in S : \A j \in S : i <= j
                col == before.columns[First(wrong)]
            IN  (/\ last'.op = "execute" /\ last'.sql = sql
                 /\ table_exists(tables, statement.table)
                 /\ unknown /= {} \/ wrong /= {})
                => /\ ~validate_row(before, row).ok
                   /\ last'.failure /= None
                   /\ last'.failure.type = "ValueError"
                   /\ get_table(tables', statement.table).rows = before.rows
                   /\ IF unknown /= {}
                      THEN last'.failure.msg
                             = "Column '" \o row.keys[First(unknown)]
                               \o "' does not exist in table '" \o before.name \o "'"
                      ELSE \/ last'.failure.msg
                                = "Column '" \o col.name \o "' expects " \o col.data_type
                                  \o ", got "
                                  \o TypeName(Get(row, col.name))
                           \/ \E i \in TooLong(before, row) :
                                /\ i < First(wrong)
                                /\ last'.failure.msg
                                     = "Value for '" \o before.columns[i].name
                                       \o "' exceeds maximum length of "
                                       \o PyRepr(before.columns[i].size)]_vars

\* An INSERT giving a text to an INT column and an integer to a VARCHAR
\* column was refused for the INT column on a table that holds a row.
C13_TextForIntRefused ==
    /\ last.op = "execute"
    /\ last.sql = InsertText(tt, <<ta, tb>>, <<Quoted(<<"x">>), <<"1">>>>)
    /\ table_exists(tables, "t")
    /\ get_column_names(get_table(tables, "t")) = <<"a", "b">>
    /\ Len(get_table(tables, "t").rows) = 1
    /\ last.failure = Exc("ValueError", "Column 'a' expects INT, got str")

\* C14: in every state reachable from an empty storage directory, the column
\* names of each table are pairwise distinct.
C14_ColumnNamesDistinct ==
    \A n \in Range(tables.keys) :
        \A i, j \in DOMAIN Get(tables, n).columns :
            Get(tables, n).columns[i].name = Get(tables, n).columns[j].name => i = j

\* C15: in every step a table that exists stays registered, its ordered
\* column definitions stay the same, its row count does not decrease and
\* each of its stored rows keeps its content and its position.
C15_TablesOnlyGrow ==
    [][\A n \in Range(tables.keys) :
         /\ Has(tables', n)
         /\ Get(tables', n).name = Get(tables, n).name
         /\ Get(tables', n).columns = Get(tables, n).columns
         /\ Len(Get(tables', n).rows) >= Len(Get(tables, n).rows)
         /\ \A i \in DOMAIN Get(tables, n).rows :
              Get(tables', n).rows[i] = Get(tables, n).rows[i]]_vars

\* A second row, different from the first, was just inserted into t while u
\* exists as well.
C15_GrownBesideOther ==
    /\ last.op = "execute"
    /\ last.sql \in InsertTexts
    /\ last.failure = None
    /\ table_exists(tables, "t") /\ table_exists(tables, "u")
    /\ Len(get_table(tables, "t").rows) = 2
    /\ get_table(tables, "t").rows[1] /= get_table(tables, "t").rows[2]

\* The table a successful CREATE TABLE or INSERT of the last step wrote,
\* "" when the step was none.
Written(step) ==
    IF /\ step.op = "execute"
       /\ step.failure = None
       /\ Compiled[step.sql].ok
       /\ Compiled[step.sql].val.node \in {"CreateTableStatement", "InsertStatement"}
    THEN Compiled[step.sql].val.table
    ELSE ""

\* C16: after every execute, failed or not, there is one record per table
\* and it is the serialization of the in-memory table (name, columns,
\* rows); a successful create or insert leaves the affected table's record
\* equal to the whole table, and the record of no other table differs from
\* what it was.
C16_RecordsMirrorTables ==
    /\ [](/\ DOMAIN disk = Range(tables.keys)
          /\ \A n \in DOMAIN disk : disk[n] = json_dump(to_dict(Get(tables, n))))
    /\ [][last'.op = "execute"
          => \A written \in {Written(last')} :
               /\ written /= "" => written \in DOMAIN disk'
               /\ \A n \in DOMAIN disk' :
                    n /= written => n \in DOMAIN disk /\ disk'[n] = disk[n]]_vars

\* A second row was just inserted into t: its record holds both rows and
\* the record of u is the one of before.
C16_SecondRowPersisted ==
    /\ last.op = "execute"
    /\ Written(last) = "t"
    /\ "u" \in DOMAIN disk
    /\ Len(disk["t"].rows) = 2
    /\ Len(get_table(tables, "t").rows) = 2

\* C17: when tokenize returns, the token sequence is non-empty, its last
\* token is EOF and no other token is; it is [EOF] alone for the empty
\* text and for a text of whitespace only; it is what tokenize(sql) gives.
\* Every iteration of the loop moves the position forward, within the
\* text, or raises; and every run ends, returning or raising.
C17_TokensEndWithOneEof ==
    /\ [](last.state = "returned"
          => /\ last.tokens /= <<>>
             /\ last.tokens[Len(last.tokens)].type = "EOF"
             /\ \A i \in 1..(Len(last.tokens) - 1) : last.tokens[i].type /= "EOF"
             /\ (\A i \in DOMAIN last.sql : isspace(last.sql[i]))
                => last.tokens = <<Token("EOF", None, Len(last.sql))>>
             /\ tokenize(last.sql) = Return(last.tokens))
    /\ [](last.state = "raised" => tokenize(last.sql) = Raise(last.failure.type, last.failure.msg))
    /\ [][last'.state = "running"
          => /\ last'.position > last.position
             /\ last'.position <= Len(last.sql)]_vars
    /\ <>(last.state /= "running")

\* tokenize returned for the text a=1: an identifier, the equals sign, a
\* number and EOF at position 3.
C17_ThreeTokensThenEof ==
    /\ last.state = "returned"
    /\ last.sql = <<"a", "=", "1">>
    /\ Len(last.tokens) = 4
    /\ last.tokens[2] = Token("EQUALS", "=", 1)
    /\ last.tokens[4] = Token("EOF", None, 3)

\* The Condition each text of ChainConds stands for.
ConditionOf(text) ==
    CASE text = Over26 -> Condition("age", ">", PyInt(26))
      [] text = Under32 -> Condition("age", "<", PyInt(32))
      [] text = NameIsBob -> Condition("name", "=", PyStr(w_Bob))

\* C18: for all conditions c1, c2, c3 and all op1, op2 in {AND, OR},
\* WHERE c1 op1 c2 op2 c3 parses to
\* CompoundCondition(CompoundCondition(c1, op1, c2), op2, c3), and when the
\* three conditions evaluate on every row the SELECT returns the rows for
\* which (c1 op1 c2) op2 c3 is true, AND and OR taken in the order written.
C18_ChainFoldsLeft ==
    \A c \in ChainCases :
        (last.op = "execute" /\ last.sql = ChainText(c))
        => /\ Compiled[last.sql]
                = Return(SelectStatement(<<"*">>, "users",
                           CompoundCondition(
                               CompoundCondition(ConditionOf(c.c1), Join(c.op1),
                                                 ConditionOf(c.c2)),
                               Join(c.op2), ConditionOf(c.c3))))
           /\ (\A x \in ChainConds : Selected(x).message = NoMessage)
              => LET Of(x, row) == row \in Range(Selected(x).rows)
                     Both(op, l, r) == IF op = kAND THEN l /\ r ELSE l \/ r
                     Holds(row) == Both(c.op2,
                                        Both(c.op1, Of(c.c1, row), Of(c.c2, row)),
                                        Of(c.c3, row))
                 IN  /\ last.failure = None
                     /\ last.outcome.val.rows = SelectSeq(Selected(<<>>).rows, Holds)

\* WHERE age>26 OR age<32 AND name='Bob' returned Bob alone from a
\* table that holds Charlie, aged 35: the OR was not left for last.
C18_OrBeforeAnd ==
    /\ last.op = "execute"
    /\ last.sql = SelectText(<<STAR>>, w_users,
                             JoinText(JoinText(Over26, kOR, Under32), kAND, NameIsBob))
    /\ get_table(tables, "users").rows = ScenarioARows
    /\ last.failure = None
    /\ last.outcome.val.rows = <<UserRow(2, w_Bob, 30)>>

\* C19: whenever execute returns an error result, the tables in memory
\* (their set, order, schemas and rows) and the persisted records are what
\* they were before the call, whether the lexer, the parser or the executor
\* failed.
C19_ErrorLeavesStorageAlone ==
    [][(/\ last'.op = "execute"
        /\ last'.failure /= None
        /\ last'.outcome = Return(ErrorResult(last'.failure.msg)))
       => /\ tables' = tables
          /\ disk' = disk]_vars

\* An INSERT ending in the malformed number 1.2.3 returned an error result
\* on an engine whose table t holds a row.
C19_LexicalErrorAfterRows ==
    /\ last.op = "execute"
    /\ last.sql = InsertText(tt, <<ta>>, <<<<"1", ".", "2", ".", "3">>>>)
    /\ last.failure /= None
    /\ last.outcome = Return(ErrorResult(last.failure.msg))
    /\ table_exists(tables, "t")
    /\ Len(get_table(tables, "t").rows) = 1
    /\ "t" \in DOMAIN disk

\* C20: for a SELECT on an existing table whose WHERE clause is a Condition
\* on a column the table declares, the evaluation of the condition fails
\* with "column not found in row" on no row stored in the table, and so
\* the SELECT does not fail with it.
C20_DeclaredColumnInEveryRow ==
    \A sql \in SelectTexts :
        LET statement == Compiled[sql].val
            table == get_table(tables, statement.table)
            NotFound == Exc("ValueError",
                            "Column '" \o statement.where.column \o "' not found in row")
        IN  (/\ last.op = "execute"
             /\ last.sql = sql
             /\ statement.where /= None
             /\ statement.where.node = "Condition"
             /\ table_exists(tables, statement.table)
             /\ statement.where.column \in Range(get_column_names(table)))
            => /\ \A i \in DOMAIN table.rows :
                    evaluate_condition(table.rows[i], statement.where)
                      /= Raise(NotFound.type, NotFound.msg)
               /\ last.failure /= NotFound

\* The first n names of an INSERT paired with its first n values, the names
\* being different from each other.
FirstPaired(statement, n) ==
    [keys |-> SubSeq(statement.columns, 1, n),
     val |-> [k \in {statement.columns[i] : i \in 1..n} |->
                statement.values[CHOOSE i \in 1..n : statement.columns[i] = k]]]

\* C21: an INSERT whose list of names and list of values differ in length
\* parses, and its row is the pairing cut to the shorter list: the surplus
\* names or values are dropped.  When validate_row accepts that row it is
\* appended and the result has rows_affected = 1; when it does not, the
\* insert fails with validate_row's error.
C21_UnevenListsTruncated ==
    [][\A sql \in UnevenInserts :
         LET statement == Compiled[sql].val
             before == get_table(tables, statement.table)
             shorter == Min(Len(statement.columns), Len(statement.values))
             row == FirstPaired(statement, shorter)
         IN  (last'.op = "execute" /\ last'.sql = sql)
             => /\ Compiled[sql].ok
                /\ Len(statement.columns) /= Len(statement.values)
                /\ IF validate_row(before, row).ok
                   THEN /\ last'.failure = None
                        /\ last'.outcome.val.rows_affected = 1
                        /\ get_table(tables', statement.table).rows
                             = Append(before.rows, row)
                   ELSE /\ last'.failure = validate_row(before, row).exc
                        /\ get_table(tables', statement.table).rows = before.rows]_vars

\* INSERT INTO users (id, name, age) VALUES (5) succeeded and stored a row
\* that has an id only.
C21_NamesWithoutValuesDropped ==
    /\ last.op = "execute"
    /\ last.sql = InsertText(w_users, <<w_id, w_name, w_age>>, <<<<"5">>>>)
    /\ last.failure = None
    /\ last.outcome.val.rows_affected = 1
    /\ Len(get_table(tables, "users").rows) = 4
    /\ get_table(tables, "users").rows[4].keys = <<"id">>
    /\ Get(get_table(tables, "users").rows[4], "id") = PyInt(5)

\* The run of digits and dots the lexer is about to read as a number, <<>>
\* when it is not at a digit.
NumberAhead ==
    IF /\ last.state = "running"
       /\ ~AtEnd(last.sql, last.position)
       /\ isdigit(CharAt(last.sql, last.position))
    THEN Chars(last.sql, last.position, RunEnd(last.sql, last.position, "number"))
    ELSE <<>>

\* C22 as stated: a run of digits and dots with more than one dot is
\* accepted; the tokenizer does not fail on it and appends a NUMBER token
\* for it.
C22_SecondDotAccepted ==
    [][CountDots(NumberAhead) > 1
       => /\ last'.state = "running"
          /\ Len(last'.tokens) = Len(last.tokens) + 1
          /\ last'.tokens[Len(last'.tokens)].type = "NUMBER"]_vars

\* C22 amended: a run of digits and dots with more than one dot is read as
\* one literal and refused; tokenize fails on it with the ValueError of
\* float(), "could not convert string to float", naming the whole run, and
\* no NUMBER token is made of it.
C22_SecondDotRefused ==
    [][CountDots(NumberAhead) > 1
       => /\ last'.state = "raised"
          /\ last'.failure
               = Exc("ValueError",
                     "could not convert string to float: '" \o Join(NumberAhead) \o "'")
          /\ last'.tokens = last.tokens
          /\ tokenize(last.sql) = Raise(last'.failure.type, last'.failure.msg)]_vars

\* tokenize raised on the text =1.. after the token of the equals sign.
C22_TwoDotsRaised ==
    /\ last.state = "raised"
    /\ last.sql = <<"=", "1", ".", ".">>
    /\ last.position = 1
    /\ Len(last.tokens) = 1
    /\ last.failure.msg = "could not convert string to float: '1..'"

\* C23: for WHERE p AND q and WHERE p OR q, both operands are evaluated on
\* each row, p first: the SELECT fails with the failure of the first
\* operand that fails on the first row where one fails, also when the other
\* operand decides the result on that row; it succeeds when none fails.
C23_BothOperandsEvaluated ==
    \A c \in JoinCases \cup DecidedCases :
        (last.op = "execute" /\ last.sql = SelectText(c.cols, c.table, JoinText(c.p, c.kw, c.q)))
        => LET where == Compiled[last.sql].val.where
               rows == get_table(tables, "users").rows
               Left(i) == evaluate_condition(rows[i], where.left)
               Right(i) == evaluate_condition(rows[i], where.right)
               failing == {i \in DOMAIN rows : ~Left(i).ok \/ ~Right(i).ok}
               first == CHOOSE i \in failing : \A j \in failing : i <= j
           IN  /\ where.node = "CompoundCondition"
               /\ where.left.node = "Condition" /\ where.right.node = "Condition"
               /\ IF failing = {} THEN last.failure = None
                  ELSE last.failure = IF ~Left(first).ok THEN Left(first).exc
                                      ELSE Right(first).exc

\* WHERE id > 0 OR age < 'Bob' failed on Scenario A's rows, where id > 0 is
\* true of every row.
C23_TrueLeftUnderOr ==
    /\ last.op = "execute"
    /\ last.sql = SelectText(<<STAR>>, w_users,
                             JoinText(IdOver0, kOR, CondText(w_age, <<"<">>, Quoted(w_Bob))))
    /\ get_table(tables, "users").rows = ScenarioARows
    /\ Selected(IdOver0).rows = ScenarioARows
    /\ last.failure /= None
    /\ last.failure.type = "TypeError"

\* What follows the statement begins with a token the statement's grammar
\* goes on with: WHERE after a SELECT that has no WHERE clause, AND or OR
\* after a SELECT that has one.
Continues(c) ==
    LET first == tokenize(c.tail).val[1].type
        statement == Compiled[c.base].val
    IN  /\ statement.node = "SelectStatement"
        /\ IF statement.where = None THEN first = "WHERE" ELSE first \in {"AND", "OR"}

\* The step executed the text c.base \o c.tail.
Executed(c) ==
    /\ last'.op = "execute"
    /\ last'.sql = c.base \o c.tail

\* The text c.base \o c.tail is parsed to the statement of c.base alone and,
\* executed, did what c.base alone does and returned what it returns.
TailIgnored(c) ==
    /\ Compiled[c.base \o c.tail].ok
    /\ Compiled[c.base \o c.tail] = Compiled[c.base]
    /\ \A alone \in {engine_execute(Compiled[c.base], tables, disk)} :
        /\ last'.outcome = alone.outcome
        /\ tables' = alone.tried.tables
        /\ disk' = alone.tried.disk

\* C24 as stated: whatever tokens follow a complete statement, parse
\* returns that statement and reports no syntax error, and only that
\* statement is executed.
C24_AnyTailIgnored ==
    [][\A c \in TailCases \cup ContinuedCases : Executed(c) => TailIgnored(c)]_vars

\* C24 amended: tokens that follow a complete statement and do not begin
\* with a token its grammar goes on with (WHERE after a SELECT without
\* WHERE clause, AND or OR after a SELECT's condition) are ignored: parse
\* returns the statement and reports no syntax error, and only that
\* statement is executed.
C24_TailIgnored ==
    [][\A c \in TailCases \cup ContinuedCases : (Executed(c) /\ ~Continues(c)) => TailIgnored(c)]_vars

\* SELECT * FROM users followed by ;INSERT INTO users(id)VALUES(9) returned
\* the three rows of Scenario A and the table still holds just these.
C24_SecondStatementNotExecuted ==
    /\ last.op = "execute"
    /\ last.sql = SelectUsers \o InsertNineAfter
    /\ last.failure = None
    /\ last.outcome.val.rows = ScenarioARows
    /\ get_table(tables, "users").rows = ScenarioARows

\* A SELECT of SelectCases has just run on a registered table, with one
\* WHERE condition on a column the table does not declare.
UndeclaredCompared(c) ==
    /\ last.op = "execute"
    /\ last.sql = SelectText(c.cols, c.table, c.where)
    /\ c.where /= <<>>
    /\ table_exists(tables, Join(c.table))
    /\ Compiled[last.sql].val.where.node = "Condition"
    /\ Compiled[last.sql].val.where.column
         \notin Range(get_column_names(get_table(tables, Join(c.table))))

OtherKind(a, b) ==
    \/ a.kind = "str" /\ IsNumber(b)
    \/ IsNumber(a) /\ b.kind = "str"

\* What comparing a with b of the other kind gives under the operator.
MixedComparison(operator, a, b) ==
    CASE operator = "=" -> Return(FALSE)
      [] operator = "!=" -> Return(TRUE)
      [] OTHER -> Raise("TypeError",
                        "'" \o operator \o "' not supported between instances of '"
                        \o TypeName(a) \o "' and '" \o TypeName(b) \o "'")

\* C26: a WHERE condition that compares a stored value with a literal of the
\* other scalar kind is false for every such row under =, true under !=, and
\* fails under >, <, >= and <=.  On a non-empty table the SELECT fails under
\* the ordering operators and execute returns an error result; when every
\* row stores a value in the column, the SELECT returns no row under =,
\* every row under != and the TypeError's message under the ordering
\* operators.  execute returns a result in each case.
C26_OtherKindCompared ==
    \A c \in MixedCases :
        (last.op = "execute" /\ last.sql = MixedText(c))
        => \A condition \in {Compiled[MixedText(c)].val.where} :
           \A rows \in {get_table(tables, "users").rows} :
             /\ last.outcome.ok
             /\ rows /= <<>>
             /\ \A i \in DOMAIN rows :
                  Has(rows[i], condition.column)
                  => /\ OtherKind(Get(rows[i], condition.column), condition.value)
                     /\ evaluate_condition(rows[i], condition)
                          = MixedComparison(condition.operator,
                                            Get(rows[i], condition.column),
                                            condition.value)
             /\ condition.operator \notin {"=", "!="}
                => /\ last.failure /= None
                   /\ last.outcome = Return(ErrorResult(last.failure.msg))
             /\ (\A i \in DOMAIN rows : Has(rows[i], condition.column))
                => CASE condition.operator = "="
                          -> /\ last.failure = None
                             /\ last.outcome.val
                                  = QueryResult(<<"id", "name", "age">>, <<>>, 0, NoMessage)
                     [] condition.operator = "!="
                          -> /\ last.failure = None
                             /\ last.outcome.val
                                  = QueryResult(<<"id", "name", "age">>,
                                                [i \in DOMAIN rows |->
                                                   project(rows[i], <<"id", "name", "age">>)],
                                                0, NoMessage)
                     [] OTHER
                          -> /\ last.failure /= None
                             /\ last.failure.type = "TypeError"
                             /\ last.outcome
                                  = Return(ErrorResult(
                                        MixedComparison(condition.operator,
                                                        Get(rows[1], condition.column),
                                                        condition.value).exc.msg))

\* SELECT * FROM users WHERE name>=1 on Scenario A's three rows returned the
\* error result of the TypeError.
C26_TextAgainstNumberFailed ==
    /\ last.op = "execute"
    /\ last.sql = MixedText([col |-> w_name, op |-> <<">", "=">>, lit |-> <<"1">>])
    /\ get_table(tables, "users").rows = ScenarioARows
    /\ last.outcome
         = Return(ErrorResult("'>=' not supported between instances of 'str' and 'int'"))

====
